---- MODULE Spec2Model ----
(***************************************************************************)
(* teletools: ABR portability / numbering-plan ingestion into PostgreSQL   *)
(* and the point-in-time carrier resolution query.                         *)
(*                                                                         *)
(* Tables are modelled by their rows.  A BIGINT is a sequence of decimal   *)
(* digits without leading zeros (phone numbers have 10 or 11 digits and do *)
(* not fit a 32-bit integer), a text value is a sequence of digits that    *)
(* may start with zeros.  SQL NULL is the value NULL below.                *)
(***************************************************************************)
EXTENDS Integers, Sequences, FiniteSets, Bags, TLC

\* ------------------------------------------------------------------------
\* Bounds of the model
\* ------------------------------------------------------------------------

\* rows the portability staging table may hold
MaxStaging == 2

\* numbers in one query batch
MaxBatch == 2

\* ------------------------------------------------------------------------
\* Values
\* ------------------------------------------------------------------------

\* SQL NULL / pandas NA for integer columns and codes
NULL == -9

\* the carrier code the SQL substitutes for a missing code
SENTINEL == -1

\* SQL NULL for text columns
NULLTEXT == "\\N"

NAO_IDENTIFICADO == "NAO IDENTIFICADO"

\* phone numbers used by the model: an 11-digit mobile number of area 11,
\* a 10-digit fixed number of area 21, and a 7-digit number
T11 == <<1, 1, 9, 8, 7, 6, 5, 4, 3, 2, 1>>
T10 == <<2, 1, 3, 9, 8, 3, 8, 6, 8, 6>>
T7 == <<1, 1, 9, 8, 7, 6, 5>>

\* the sign of a negative number in its text
MINUS == -1

\* a negative number of three characters: the text -15
TNeg == <<MINUS, 1, 5>>

\* value of a digit text as an integer (used for cn and prefixo only, which
\* have at most five digits)
RECURSIVE IntOf(_)
IntOf(s) ==
    IF s = <<>> THEN 0
    ELSE IF s[1] = MINUS THEN 0 - IntOf(Tail(s))
    ELSE 10 * IntOf(SubSeq(s, 1, Len(s) - 1)) + s[Len(s)]

\* text -> BIGINT as COPY parses it: leading zeros carry no value
RECURSIVE ToBigint(_)
ToBigint(s) ==
    IF Len(s) > 1 /\ s[1] = 0 THEN ToBigint(Tail(s)) ELSE s

\* a < b on digit texts of equal length
RECURSIVE LexLess(_, _)
LexLess(a, b) ==
    IF a = <<>> THEN FALSE
    ELSE IF a[1] # b[1] THEN a[1] < b[1]
    ELSE LexLess(Tail(a), Tail(b))

\* a <= b on BIGINTs
BigLeq(a, b) ==
    \/ Len(a) < Len(b)
    \/ Len(a) = Len(b) /\ (a = b \/ LexLess(a, b))

\* ------------------------------------------------------------------------
\* Dates: datetime.strptime and the calendar
\* ------------------------------------------------------------------------

\* a str is a sequence of one-character strings
Digits == <<"0", "1", "2", "3", "4", "5", "6", "7", "8", "9">>

\* str.isdigit() on one character
IsDigit(c) == \E v \in 1..Len(Digits) : Digits[v] = c

DigitVal(c) == (CHOOSE v \in 1..Len(Digits) : Digits[v] = c) - 1

\* int(s) for a str of digits
RECURSIVE IntOfStr(_)
IntOfStr(s) ==
    IF s = <<>> THEN 0
    ELSE 10 * IntOfStr(SubSeq(s, 1, Len(s) - 1)) + DigitVal(s[Len(s)])

\* str(n) for an int
RECURSIVE StrOfNat(_)
StrOfNat(n) ==
    IF n < 10 THEN <<Digits[n + 1]>>
    ELSE Append(StrOfNat(n \div 10), Digits[(n % 10) + 1])

StrOfInt(n) == IF n < 0 THEN <<"-">> \o StrOfNat(-n) ELSE StrOfNat(n)

IsLeap(y) == (y % 4 = 0 /\ y % 100 # 0) \/ y % 400 = 0

DaysInMonth(y, m) ==
    IF m = 2 THEN (IF IsLeap(y) THEN 29 ELSE 28)
    ELSE IF m \in {4, 6, 9, 11} THEN 30 ELSE 31

\* the field widths the regular expression of a directive tries, in order:
\* %Y is \d\d\d\d, %m is 1[0-2]|0[1-9]|[1-9], %d is 3[01]|[12]\d|0[1-9]|[1-9]
FieldWidths(t) == IF t = "Y" THEN <<4>> ELSE <<2, 1>>

FieldMatches(t, f) ==
    /\ \A i \in 1..Len(f) : IsDigit(f[i])
    /\ CASE t = "Y" -> Len(f) = 4
         [] t = "m" -> IF Len(f) = 2 THEN IntOfStr(f) \in 1..12
                       ELSE IntOfStr(f) \in 1..9
         [] t = "d" -> IF Len(f) = 2 THEN IntOfStr(f) \in 1..31
                       ELSE IntOfStr(f) \in 1..9
         [] OTHER -> FALSE

NoMatch == [ok |-> FALSE, end |-> 0, Y |-> 0, m |-> 0, d |-> 0]

\* re.match of the compiled format against s from position pos: the first
\* match in the order the alternatives are tried
RECURSIVE Match(_, _, _, _)
Match(s, pos, fmt, acc) ==
    IF fmt = <<>> THEN [acc EXCEPT !.ok = TRUE, !.end = pos]
    ELSE LET t == Head(fmt)
             Try(w) ==
                 IF pos + w - 1 <= Len(s) /\ FieldMatches(t, SubSeq(s, pos, pos + w - 1))
                 THEN Match(s, pos + w, Tail(fmt),
                            [acc EXCEPT ![t] = IntOfStr(SubSeq(s, pos, pos + w - 1))])
                 ELSE NoMatch
             ws == FieldWidths(t)
         IN  IF t \in {"-", "/"}
             THEN IF pos <= Len(s) /\ s[pos] = t
                  THEN Match(s, pos + 1, Tail(fmt), acc)
                  ELSE NoMatch
             ELSE IF Try(ws[1]).ok THEN Try(ws[1])
             ELSE IF Len(ws) > 1 THEN Try(ws[2])
             ELSE NoMatch

\* datetime.strptime(s, fmt).date(): ValueError when the format does not
\* match, when data remains unconverted, or when the fields are no date
Strptime(s, fmt) ==
    LET r == Match(s, 1, fmt, NoMatch)
    IN  IF r.ok /\ r.end = Len(s) + 1 /\ r.Y >= 1 /\ r.d <= DaysInMonth(r.Y, r.m)
        THEN [ok |-> TRUE, y |-> r.Y, m |-> r.m, d |-> r.d]
        ELSE [ok |-> FALSE, y |-> 0, m |-> 0, d |-> 0]

\* ------------------------------------------------------------------------
\* Portability staging rows (entrada.abr_portabilidade)
\* ------------------------------------------------------------------------

\* data_agendamento is a TIMESTAMP: a calendar day and a time of day
Timestamp(d, t) == [date |-> d, time |-> t]
NoTimestamp == [date |-> NULL, time |-> NULL]

\* registered name of a carrier code in the PIP reports
NomeOf(c) == CASE c = 1 -> "TIM SA" [] c = 2 -> "EMBRATEL" [] OTHER -> NULLTEXT

\* rank of a file name under the database collation (ORDER BY nome_arquivo)
Collate(f) == CASE f = "A.csv.gz" -> 1 [] f = "B.csv.gz" -> 2 [] OTHER -> 0

FileNames == {"A.csv.gz", "B.csv.gz"}

\* a parsed row of a PIP report, before the file name is stamped on it
PipRow(tn, ts, rec, bp) ==
    [numero_bp |-> bp, tn_inicial |-> tn,
     cod_receptora |-> rec, nome_receptora |-> NomeOf(rec),
     cod_doadora |-> NULL, nome_doadora |-> NULLTEXT,
     data_agendamento |-> ts]

\* rows a report may carry: full provenance detail (time of day, two files)
\* calendar days and times of day on which the reports schedule events
Dates == {1, 2}
Times == {0, 1}
Timestamps == {Timestamp(d, t) : d \in Dates, t \in Times} \cup {NoTimestamp}
PipRows == {PipRow(tn, ts, rec, 7266080) :
               tn \in {T11}, ts \in Timestamps, rec \in {NULL, 1}}

\* ------------------------------------------------------------------------
\* validate_date (QueryABRDataBase)
\* ------------------------------------------------------------------------

\* the values a caller passes as reference_date
NoneValue == [type |-> "NoneType"]
DateValue(dt) == [type |-> "date", value |-> dt]
StrValue(s) == [type |-> "str", value |-> s]
IntValue(n) == [type |-> "int", value |-> n]

\* what validate_date does once it holds the date as a str
ValidateDateStr(date_str) ==
    IF Len(date_str) # 8
    THEN [ok |-> FALSE, error |-> "ValueError", value |-> 0]
    ELSE IF ~Strptime(date_str, <<"Y", "m", "d">>).ok
    THEN [ok |-> FALSE, error |-> "ValueError", value |-> 0]
    ELSE [ok |-> TRUE, error |-> "", value |-> IntOfStr(date_str)]

\* a validation that checks digits and length but not the calendar
validate_date_unparsed(reference_date) ==
    IF reference_date.type = "int"
    THEN LET date_str == StrOfInt(reference_date.value)
         IN  IF Len(date_str) # 8 \/ \E i \in 1..Len(date_str) : ~IsDigit(date_str[i])
             THEN [ok |-> FALSE, error |-> "ValueError", value |-> 0]
             ELSE [ok |-> TRUE, error |-> "", value |-> IntOfStr(date_str)]
    ELSE IF reference_date.type = "str"
    THEN IF Len(reference_date.value) # 8
              \/ \E i \in 1..Len(reference_date.value) : ~IsDigit(reference_date.value[i])
         THEN [ok |-> FALSE, error |-> "ValueError", value |-> 0]
         ELSE [ok |-> TRUE, error |-> "", value |-> IntOfStr(reference_date.value)]
    ELSE [ok |-> FALSE, error |-> "TypeError", value |-> 0]

\* validate_date: an int is converted with str(), a str must satisfy
\* isdigit(); then the length must be 8 and strptime("%Y%m%d") must accept
\* it; the result is int(date_str)
validate_date(reference_date) ==
    IF reference_date.type = "int"
    THEN ValidateDateStr(StrOfInt(reference_date.value))
    ELSE IF reference_date.type = "str"
    THEN IF \/ Len(reference_date.value) = 0
            \/ \E i \in 1..Len(reference_date.value) :
                   ~IsDigit(reference_date.value[i])
         THEN [ok |-> FALSE, error |-> "ValueError", value |-> 0]
         ELSE ValidateDateStr(reference_date.value)
    ELSE [ok |-> FALSE, error |-> "TypeError", value |-> 0]

\* no validate_date call was made
NotValidated == [done |-> FALSE, arg |-> NoneValue, ok |-> FALSE, error |-> "", value |-> 0]

\* the staging tables of the numbering plan
TABLE_NUMERACAO == "abr_numeracao_teletools"
TABLE_CNG == "abr_cng_teletools"
TABLE_SUP == "abr_sup_teletools"

NsapnTables == {TABLE_NUMERACAO, TABLE_CNG, TABLE_SUP}

\* no import run was made
NoRun ==
    [loader |-> "none", file_list |-> <<>>, truncate_table |-> FALSE,
     results |-> <<>>, log |-> <<>>, again |-> FALSE]

\* entrada.numbers_to_query does not exist.  A table that exists carries
\* the rows committed to it and the call that created it.
NoScratch == [exists |-> FALSE, rows |-> {}, creator |-> 0]

VARIABLES
    import_table_exists,        \* entrada.abr_portabilidade exists
    import_table_portabilidade, \* its rows, a bag
    tb_historico_exists,        \* public.tb_portabilidade_historico exists
    tb_portabilidade_historico, \* its rows, a set
    tb_numeracao,               \* rows of the numbering-plan table
    tb_prestadoras,             \* rows of the carrier registry
    results,                    \* what the last query_numbers_carriers returned
    last,                       \* the last operation and its outcome
    numbers_to_query,           \* entrada.numbers_to_query as committed
    calls,                      \* the query_numbers_carriers calls in progress
    nsapn_tables,               \* rows of the numbering staging tables, bags
    nsapn_exists,               \* the numbering staging tables that exist
    run,                        \* the last multi-file import run
    validated                   \* the last validate_date call

vars == <<import_table_exists, import_table_portabilidade,
          tb_historico_exists, tb_portabilidade_historico,
          tb_numeracao, tb_prestadoras, results, last,
          numbers_to_query, calls, nsapn_tables, nsapn_exists, run, validated>>

\* the tables the resolution engine only reads
lookups == <<tb_numeracao, tb_prestadoras, results>>

\* the state of the portability tables
portabilidade == <<import_table_exists, import_table_portabilidade,
                   tb_historico_exists, tb_portabilidade_historico>>

\* the state of concurrent resolution calls
resolution == <<numbers_to_query, calls>>

\* the state of the numbering import and of multi-file runs
imports == <<nsapn_tables, nsapn_exists, run>>

Init ==
    /\ import_table_exists = FALSE
    /\ import_table_portabilidade = EmptyBag
    /\ tb_historico_exists = FALSE
    /\ tb_portabilidade_historico = {}
    /\ tb_numeracao = {}
    /\ tb_prestadoras = {}
    /\ results = <<>>
    /\ last = [op |-> "init", ok |-> TRUE]
    /\ numbers_to_query = NoScratch
    /\ calls = <<>>
    /\ nsapn_tables = [t \in NsapnTables |-> EmptyBag]
    /\ nsapn_exists = {}
    /\ run = NoRun
    /\ validated = NotValidated

\* ------------------------------------------------------------------------
\* _import_single_pip_report_file
\* ------------------------------------------------------------------------

\* chunk["nome_arquivo"] = file.name
StampFile(row, name) ==
    [numero_bp |-> row.numero_bp, tn_inicial |-> row.tn_inicial,
     cod_receptora |-> row.cod_receptora, nome_receptora |-> row.nome_receptora,
     cod_doadora |-> row.cod_doadora, nome_doadora |-> row.nome_doadora,
     data_agendamento |-> row.data_agendamento, nome_arquivo |-> name]

import_single_pip_report_file(name, row, truncate_table) ==
    LET kept == IF truncate_table THEN EmptyBag ELSE import_table_portabilidade
    IN  /\ BagCardinality(kept) < MaxStaging
        /\ import_table_exists' = TRUE
        /\ import_table_portabilidade' = kept (+) SetToBag({StampFile(row, name)})
        /\ last' = [op |-> "import", ok |-> TRUE]
        /\ UNCHANGED <<tb_historico_exists, tb_portabilidade_historico, lookups,
                       resolution, imports, validated>>

\* ------------------------------------------------------------------------
\* History table: drop / create (rebuild_database)
\* ------------------------------------------------------------------------

\* DROP TABLE IF EXISTS ... CASCADE
drop_tb_portabilidade_historico ==
    /\ tb_historico_exists' = FALSE
    /\ tb_portabilidade_historico' = {}
    /\ last' = [op |-> "drop", ok |-> TRUE]
    /\ UNCHANGED <<import_table_exists, import_table_portabilidade, lookups,
                   resolution, imports, validated>>

\* CREATE_TB_PORTABILIDADE_HISTORICO: drops the table if it exists, then
\* creates it empty
create_tb_portabilidade_historico ==
    /\ tb_historico_exists' = TRUE
    /\ tb_portabilidade_historico' = {}
    /\ last' = [op |-> "create", ok |-> TRUE]
    /\ UNCHANGED <<import_table_exists, import_table_portabilidade, lookups,
                   resolution, imports, validated>>

\* ------------------------------------------------------------------------
\* UPDATE_TB_PORTABILIDADE_HISTORICO (the History Consolidator)
\* ------------------------------------------------------------------------

\* data_agendamento::date
DateOf(ts) == ts.date

\* COALESCE(code, -1)
Coalesce(c, d) == IF c # NULL THEN c ELSE d

\* CAST(SUBSTRING(tn_inicial::TEXT, 1, 2) AS SMALLINT)
CnOfTn(tn) == IntOf(SubSeq(tn, 1, IF Len(tn) < 2 THEN Len(tn) ELSE 2))

\* the DISTINCT ON expressions: (tn_inicial, data_agendamento::date)
DistinctOn(r) == <<r.tn_inicial, DateOf(r.data_agendamento)>>

\* the order a sort on the TIMESTAMP column would give: the time of day
\* decides before the file name
SortsBeforeByTimestamp(r, q) ==
    \/ r.data_agendamento.time < q.data_agendamento.time
    \/ /\ r.data_agendamento.time = q.data_agendamento.time
       /\ Collate(r.nome_arquivo) > Collate(q.nome_arquivo)

\* ORDER BY tn_inicial, data_agendamento, nome_arquivo DESC, where the name
\* data_agendamento is the output column data_agendamento::date: within one
\* DISTINCT ON group, r sorts strictly before q iff its file name collates
\* after q's
SortsBefore(r, q) == Collate(r.nome_arquivo) > Collate(q.nome_arquivo)

\* the rows DISTINCT ON may keep for their group: the ones no other row of
\* the group sorts before.  Rows that tie are returned in an order the
\* database does not define.
FirstOfGroup(rows) ==
    {r \in rows :
        \A q \in rows : DistinctOn(q) = DistinctOn(r) => ~SortsBefore(q, r)}

\* the select list of port_entrada
HistRecord(r) ==
    [tn_inicial |-> r.tn_inicial,
     numero_bp |-> r.numero_bp,
     data_agendamento |-> DateOf(r.data_agendamento),
     cod_receptora |-> Coalesce(r.cod_receptora, SENTINEL),
     cod_doadora |-> Coalesce(r.cod_doadora, SENTINEL),
     cn |-> CnOfTn(r.tn_inicial),
     nome_arquivo |-> r.nome_arquivo]

\* the results the CTE port_entrada can have: one row of FirstOfGroup per
\* DISTINCT ON group
PortEntrada(rows) ==
    {{HistRecord(r) : r \in S} :
        S \in {S \in SUBSET FirstOfGroup(rows) :
                  \A r \in rows :
                      Cardinality({q \in S : DistinctOn(q) = DistinctOn(r)}) = 1}}

\* PRIMARY KEY (cn, tn_inicial, data_agendamento)
Pkey(h) == <<h.cn, h.tn_inicial, h.data_agendamento>>

\* an INSERT that appends without resolving the conflict
UpsertAppend(table, entrada) == table \cup entrada

\* INSERT ... ON CONFLICT ON CONSTRAINT ..._pkey DO UPDATE SET ...: a row
\* whose key is in the table overwrites the payload of that row, the others
\* are inserted
Upsert(table, entrada) ==
    {h \in table : \A e \in entrada : Pkey(e) # Pkey(h)} \cup entrada

\* data_agendamento DATE NOT NULL
NotNullViolation(entrada) == \E e \in entrada : e.data_agendamento = NULL

update_tb_portabilidade_historico ==
    /\ UNCHANGED <<import_table_exists, import_table_portabilidade,
                   tb_historico_exists, lookups, resolution, imports, validated>>
    /\ IF ~import_table_exists \/ ~tb_historico_exists
       THEN /\ last' = [op |-> "update", ok |-> FALSE]
            /\ UNCHANGED tb_portabilidade_historico
       ELSE \E entrada \in PortEntrada(BagToSet(import_table_portabilidade)) :
                IF NotNullViolation(entrada)
                THEN \* the statement fails, conn.rollback()
                     /\ last' = [op |-> "update", ok |-> FALSE]
                     /\ UNCHANGED tb_portabilidade_historico
                ELSE /\ tb_portabilidade_historico' =
                            Upsert(tb_portabilidade_historico, entrada)
                     /\ last' = [op |-> "update", ok |-> TRUE]

\* ------------------------------------------------------------------------
\* query_numbers_carriers (the Carrier Resolution Engine)
\* ------------------------------------------------------------------------

\* the area code taken from any number, whatever its length
DeriveCnAnyLength(s) == IntOf(SubSeq(s, 1, 2))

\* np.where(lengths.between(10, 11), nu_terminal.str[:2], "-1"), loaded into
\* a SMALLINT column
DeriveCn(s) ==
    IF Len(s) >= 10 /\ Len(s) <= 11 THEN IntOf(SubSeq(s, 1, 2)) ELSE -1

\* np.where(lengths == 10, str[2:6], np.where(lengths == 11, str[2:7], "-1")),
\* loaded into an INTEGER column
DerivePrefixo(s) ==
    IF Len(s) = 10 THEN IntOf(SubSeq(s, 3, 6))
    ELSE IF Len(s) = 11 THEN IntOf(SubSeq(s, 3, 7))
    ELSE -1

\* one row of the scratch table numbers_to_query
NtqRow(s) ==
    [nu_terminal |-> ToBigint(s), cn |-> DeriveCn(s), prefixo |-> DerivePrefixo(s)]

\* nu_terminal BIGINT PRIMARY KEY: COPY fails when two rows of the batch
\* carry the same number
CopyViolatesPkey(numbers) ==
    \E i, j \in 1..Len(numbers) :
        i # j /\ ToBigint(numbers[i]) = ToBigint(numbers[j])

\* first LATERAL subquery: the numbering-plan rows of the number
NumeracaoMatches(ntq) ==
    {n \in tb_numeracao :
        /\ n.cn = ntq.cn
        /\ n.prefixo = ntq.prefixo
        /\ BigLeq(n.faixa_inicial, ntq.nu_terminal)
        /\ BigLeq(ntq.nu_terminal, n.faixa_final)}

\* LIMIT 1 without ORDER BY: any matching row; LEFT JOIN: NULL when none
TnChoices(ntq) ==
    IF NumeracaoMatches(ntq) = {} THEN {NULL}
    ELSE {n.cod_prestadora : n \in NumeracaoMatches(ntq)}

\* the history rows of the number, whatever their date
HistoricoMatchesAnyDate(ntq, ref) ==
    {h \in tb_portabilidade_historico :
        h.cn = ntq.cn /\ h.tn_inicial = ntq.nu_terminal}

\* second LATERAL subquery: the history rows of the number on or before the
\* reference date
HistoricoMatches(ntq, ref) ==
    {h \in tb_portabilidade_historico :
        /\ h.cn = ntq.cn
        /\ h.tn_inicial = ntq.nu_terminal
        /\ h.data_agendamento <= ref}

\* ORDER BY data_agendamento ASC LIMIT 1: the oldest row
UpChoicesOldest(ntq, ref) ==
    LET m == HistoricoMatches(ntq, ref)
    IN  IF m = {} THEN {NULL}
        ELSE {h.cod_receptora :
                 h \in {h \in m : \A g \in m : h.data_agendamento <= g.data_agendamento}}

\* ORDER BY data_agendamento DESC LIMIT 1
UpChoices(ntq, ref) ==
    LET m == HistoricoMatches(ntq, ref)
    IN  IF m = {} THEN {NULL}
        ELSE {h.cod_receptora :
                 h \in {h \in m : \A g \in m : g.data_agendamento <= h.data_agendamento}}

ResultRow(ntq, nome, up, tn) ==
    [nu_terminal |-> ntq.nu_terminal,
     nome_prestadora |-> nome,
     ind_portado |-> IF up # NULL THEN 1 ELSE 0,
     ind_designado |-> IF tn # NULL THEN 1 ELSE 0]

\* a join that falls back on the sentinel carrier when both lookups miss
JoinPrestadorasSentinel(ntq, up, tn) ==
    LET cod == Coalesce(Coalesce(up, tn), SENTINEL)
        tp == {p \in tb_prestadoras : p.cod_prestadora = cod}
    IN  IF tp = {} THEN {ResultRow(ntq, NULLTEXT, up, tn)}
        ELSE {ResultRow(ntq, p.nome_prestadora, up, tn) : p \in tp}

\* LEFT JOIN tb_prestadoras tp ON COALESCE(up.cod_receptora,
\* tn.cod_prestadora) = tp.cod_prestadora: one row per registry row of the
\* code, one row with a NULL name when there is none
JoinPrestadoras(ntq, up, tn) ==
    LET tp == {p \in tb_prestadoras :
                  Coalesce(up, tn) # NULL /\ p.cod_prestadora = Coalesce(up, tn)}
    IN  IF tp = {} THEN {ResultRow(ntq, NULLTEXT, up, tn)}
        ELSE {ResultRow(ntq, p.nome_prestadora, up, tn) : p \in tp}

\* the row sets the SELECT may produce for one scratch row
RowChoices(ntq, ref) ==
    {JoinPrestadoras(ntq, up, tn) : up \in UpChoices(ntq, ref), tn \in TnChoices(ntq)}

\* the row sets the SELECT may produce for the scratch table
RECURSIVE SelectChoices(_, _)
SelectChoices(scratch, ref) ==
    IF scratch = {} THEN {{}}
    ELSE LET q == CHOOSE q \in scratch : TRUE
         IN  {rows \cup rest : rows \in RowChoices(q, ref),
                               rest \in SelectChoices(scratch \ {q}, ref)}

\* the SELECT has no ORDER BY: fetchall() returns the rows in any order
Orderings(rows) ==
    {sq \in [1..Cardinality(rows) -> rows] :
        \A i, j \in 1..Cardinality(rows) : i # j => sq[i] # sq[j]}

Range(sq) == {sq[i] : i \in 1..Len(sq)}

\* a datetime.date
Date(y, m, d) == [y |-> y, m |-> m, d |-> d]

\* date.today()
Today == Date(2024, 12, 16)

\* for fmt in ["%Y-%m-%d", "%d/%m/%Y", "%Y%m%d"]
DateFormats ==
    <<(<<"Y", "-", "m", "-", "d">>), (<<"d", "/", "m", "/", "Y">>), (<<"Y", "m", "d">>)>>

\* a normalisation that takes today's date for a string no format parses
NormalizeDateLenient(reference_date) ==
    IF reference_date.type = "date"
    THEN [ok |-> TRUE, error |-> "", date |-> reference_date.value]
    ELSE IF reference_date.type = "str"
              /\ \E i \in 1..Len(DateFormats) :
                     Strptime(reference_date.value, DateFormats[i]).ok
    THEN LET i == CHOOSE i \in 1..Len(DateFormats) :
                      /\ Strptime(reference_date.value, DateFormats[i]).ok
                      /\ \A j \in 1..(i - 1) :
                             ~Strptime(reference_date.value, DateFormats[j]).ok
             r == Strptime(reference_date.value, DateFormats[i])
         IN  [ok |-> TRUE, error |-> "", date |-> Date(r.y, r.m, r.d)]
    ELSE [ok |-> TRUE, error |-> "", date |-> Today]

\* "Normalize input to date object": None is today, a date is itself, a str
\* is parsed with the first format that accepts it, ValueError when none
\* does, TypeError for any other type
NormalizeDate(reference_date) ==
    IF reference_date.type = "NoneType"
    THEN [ok |-> TRUE, error |-> "", date |-> Today]
    ELSE IF reference_date.type = "date"
    THEN [ok |-> TRUE, error |-> "", date |-> reference_date.value]
    ELSE IF reference_date.type = "str"
    THEN IF \E i \in 1..Len(DateFormats) :
                Strptime(reference_date.value, DateFormats[i]).ok
         THEN LET i == CHOOSE i \in 1..Len(DateFormats) :
                           /\ Strptime(reference_date.value, DateFormats[i]).ok
                           /\ \A j \in 1..(i - 1) :
                                  ~Strptime(reference_date.value, DateFormats[j]).ok
                  r == Strptime(reference_date.value, DateFormats[i])
              IN  [ok |-> TRUE, error |-> "", date |-> Date(r.y, r.m, r.d)]
         ELSE [ok |-> FALSE, error |-> "ValueError", date |-> Today]
    ELSE [ok |-> FALSE, error |-> "TypeError", date |-> Today]

\* a < b on dates
DateLess(a, b) ==
    \/ a.y < b.y
    \/ a.y = b.y /\ a.m < b.m
    \/ a.y = b.y /\ a.m = b.m /\ a.d < b.d

\* the calendar days of the history: day 1 is 2024-12-15, day 2 is
\* 2024-12-16; every earlier date compares as day 0 and every later date as
\* day 2 with the days the history holds
DayOf(dt) ==
    IF DateLess(dt, Date(2024, 12, 15)) THEN 0
    ELSE IF dt = Date(2024, 12, 15) THEN 1
    ELSE 2

\* reference dates no format parses: a month 13, a 30th of February, the
\* day first with dashes, an empty string; and a date given as an int
MalformedDates ==
    {StrValue(<<"2", "0", "2", "4", "-", "1", "3", "-", "0", "1">>),
     StrValue(<<"3", "0", "/", "0", "2", "/", "2", "0", "2", "4">>),
     StrValue(<<"1", "5", "-", "1", "2", "-", "2", "0", "2", "4">>),
     StrValue(<<>>),
     IntValue(20241215)}

\* the reference dates callers pass: a date before the scheduled days, the
\* first scheduled day as a string, no date at all (today, the second
\* scheduled day), and the malformed ones
ReferenceDates ==
    {DateValue(Date(2024, 12, 14)),
     StrValue(<<"2", "0", "2", "4", "-", "1", "2", "-", "1", "5">>),
     NoneValue}
    \cup MalformedDates

\* ref_date, the normalised reference date of each value a caller passes
ref_date == [reference_date \in ReferenceDates |-> NormalizeDate(reference_date)]

\* the outcome of a call that raised
QueryError(numbers, reference_date, error, connected) ==
    [op |-> "query", ok |-> FALSE, numbers |-> numbers,
     reference_date |-> reference_date, ref |-> NULL, scratch |-> {},
     connected |-> connected, error |-> error]

query_numbers_carriers(numbers, reference_date) ==
    /\ UNCHANGED <<import_table_exists, import_table_portabilidade,
                   tb_historico_exists, tb_portabilidade_historico,
                   tb_numeracao, tb_prestadoras, resolution, imports, validated>>
    /\ IF Len(numbers) = 0
       THEN \* "numbers_to_query cannot be empty"
            /\ results' = <<>>
            /\ last' = QueryError(numbers, reference_date, "ValueError", FALSE)
       ELSE IF ~ref_date[reference_date].ok
       THEN /\ results' = <<>>
            /\ last' = QueryError(numbers, reference_date,
                                  ref_date[reference_date].error, FALSE)
       ELSE IF CopyViolatesPkey(numbers)
       THEN \* bulk_insert_with_copy raises, nothing is returned
            /\ results' = <<>>
            /\ last' = QueryError(numbers, reference_date, "UniqueViolation", TRUE)
       ELSE LET scratch == {NtqRow(numbers[i]) : i \in 1..Len(numbers)}
                ref == DayOf(ref_date[reference_date].date)
            IN  \E rows \in SelectChoices(scratch, ref) :
                \E sq \in Orderings(rows) :
                    /\ results' = sq
                    /\ last' = [op |-> "query", ok |-> TRUE, numbers |-> numbers,
                                reference_date |-> reference_date, ref |-> ref,
                                scratch |-> scratch, connected |-> TRUE,
                                error |-> ""]

\* ------------------------------------------------------------------------
\* The tables the resolution engine reads
\* ------------------------------------------------------------------------

\* the numbers callers ask about: T11, T10, T7
QueryNumbers == {T11, T10, T7}

\* batches of up to MaxBatch numbers, the empty batch included
Batches == UNION {[1..n -> QueryNumbers] : n \in 0..MaxBatch}

\* reference dates: before, on and after the scheduled days
RefDates == {0, 1, 2}

NumeracaoRow(cn, prefixo, lo, hi, cod) ==
    [cn |-> cn, prefixo |-> prefixo, faixa_inicial |-> lo, faixa_final |-> hi,
     cod_prestadora |-> cod]

\* numbering-plan rows: the block of T11 assigned to carrier 3, the same
\* block assigned to carrier 2 (an overlap), the block of T10, and a block
\* of area 11 whose range holds the 7-digit number T7
PlanRows ==
    {NumeracaoRow(11, 98765, <<1,1,9,8,7,6,5,0,0,0,0>>, <<1,1,9,8,7,6,5,9,9,9,9>>, 3),
     NumeracaoRow(11, 98765, <<1,1,9,8,7,6,5,4,0,0,0>>, <<1,1,9,8,7,6,5,4,9,9,9>>, 2),
     NumeracaoRow(21, 3983, <<2,1,3,9,8,3,0,0,0,0>>, <<2,1,3,9,8,3,8,0,0,0>>, 3),
     NumeracaoRow(11, 98765, <<1,1,9,8,0,0,0>>, <<1,1,9,8,9,9,9>>, 3)}

Prestadora(cod, nome) == [cod_prestadora |-> cod, nome_prestadora |-> nome]

\* the registry with every carrier, and the one built before the numbering
\* plan was loaded
Registries ==
    {{Prestadora(SENTINEL, NAO_IDENTIFICADO), Prestadora(1, "TIM SA"),
      Prestadora(2, "EMBRATEL"), Prestadora(3, "VIVO")},
     {Prestadora(SENTINEL, NAO_IDENTIFICADO), Prestadora(1, "TIM SA")}}

\* rows consolidated into the history the engine reads
QueryPipRows ==
    {StampFile(PipRow(T11, Timestamp(d, 0), rec, 7266080), "A.csv.gz") :
        d \in Dates, rec \in {NULL, 1}}
    \cup {StampFile(PipRow(T7, Timestamp(d, 0), 1, 7266080), "A.csv.gz") : d \in Dates}

\* the database after PIP reports were loaded and consolidated
QueryInit ==
    /\ import_table_exists = TRUE
    /\ import_table_portabilidade = EmptyBag
    /\ tb_historico_exists = TRUE
    /\ tb_portabilidade_historico \in UNION {PortEntrada(S) : S \in SUBSET QueryPipRows}
    /\ tb_numeracao \in SUBSET PlanRows
    /\ tb_prestadoras \in Registries
    /\ results = <<>>
    /\ last = [op |-> "init", ok |-> TRUE]
    /\ numbers_to_query = NoScratch
    /\ calls = <<>>
    /\ nsapn_tables = [t \in NsapnTables |-> EmptyBag]
    /\ nsapn_exists = {}
    /\ run = NoRun
    /\ validated = NotValidated

\* one resolution call on the loaded database: the call changes no table,
\* so a second call reaches no state the first one does not
QueryNext ==
    /\ last.op = "init"
    /\ \E numbers \in Batches, reference_date \in ReferenceDates :
           query_numbers_carriers(numbers, reference_date)

QuerySpec == QueryInit /\ [][QueryNext]_vars

\* ------------------------------------------------------------------------
\* Resolution of numbers of other lengths against a consolidated history
\* ------------------------------------------------------------------------

\* rows of PIP reports: a 7-digit number, a negative number, a mobile number
SentinelPipRows ==
    {PipRow(T7, Timestamp(1, 0), 1, 7266080),
     PipRow(TNeg, Timestamp(1, 0), 1, 7266081),
     PipRow(T11, Timestamp(2, 0), NULL, 7266082)}

\* a database with numbering plan and registry, before any PIP report
SentinelInit ==
    /\ import_table_exists = FALSE
    /\ import_table_portabilidade = EmptyBag
    /\ tb_historico_exists = FALSE
    /\ tb_portabilidade_historico = {}
    /\ tb_numeracao = PlanRows
    /\ tb_prestadoras \in Registries
    /\ results = <<>>
    /\ last = [op |-> "init", ok |-> TRUE]
    /\ numbers_to_query = NoScratch
    /\ calls = <<>>
    /\ nsapn_tables = [t \in NsapnTables |-> EmptyBag]
    /\ nsapn_exists = {}
    /\ run = NoRun
    /\ validated = NotValidated

\* imports and consolidations, and a resolution call after a consolidation
SentinelNext ==
    \/ \E row \in SentinelPipRows, truncate_table \in BOOLEAN :
           import_single_pip_report_file("A.csv.gz", row, truncate_table)
    \/ create_tb_portabilidade_historico
    \/ update_tb_portabilidade_historico
    \/ /\ last.op = "update"
       /\ last.ok
       /\ \E numbers \in UNION {[1..n -> {T7, TNeg}] : n \in 1..MaxBatch} :
              query_numbers_carriers(numbers, NoneValue)

SentinelSpec == SentinelInit /\ [][SentinelNext]_vars

\* ------------------------------------------------------------------------
\* Files, chunks and the report of a multi-file import
\* ------------------------------------------------------------------------

\* a chunk the reader yields: its parsed rows, and what goes wrong with it:
\* "parse" when reading it raises (a value the dtype rejects, a damaged
\* archive), "load" when its COPY raises (a value the column rejects)
Chunk(rows, fault) == [rows |-> rows, fault |-> fault]

\* a file: its directory, its name and the chunks it is read in
File(dir, name, chunks) == [dir |-> dir, name |-> name, chunks |-> chunks]

\* an entry of the import log: file and chunk by position
Event(ev, file, chunk, table) ==
    [ev |-> ev, file |-> file, chunk |-> chunk, table |-> table]

\* the rows of a chunk as a bag
RECURSIVE SeqToBag(_)
SeqToBag(sq) ==
    IF sq = <<>> THEN EmptyBag ELSE SetToBag({Head(sq)}) (+) SeqToBag(Tail(sq))

\* results[file.name] = entry
Put(results_, name, entry) ==
    [n \in DOMAIN results_ \cup {name} |-> IF n = name THEN entry ELSE results_[n]]

\* the entries of the report
Success(file_rows) == [status |-> "success", lines |-> file_rows]
Error == [status |-> "error", lines |-> 0]

\* a staging table that ignores TRUNCATE
TruncateIgnored(table, truncate_table) == table

\* TRUNCATE TABLE when requested
Truncate(table, truncate_table) == IF truncate_table THEN EmptyBag ELSE table

\* a COPY that leaves the first row behind when it fails
CopyUnrolled(table, rows, fault) ==
    IF fault = "load" /\ rows # <<>> THEN table (+) SetToBag({Head(rows)})
    ELSE IF fault = "load" THEN table
    ELSE table (+) SeqToBag(rows)

\* _bulk_insert_with_copy: COPY and commit; on failure conn.rollback()
Copy(table, rows, fault) ==
    IF fault = "load" THEN table ELSE table (+) SeqToBag(rows)

\* a loop that passes the truncation request on to every file
ShouldTruncateEach(truncate_table, idx) == truncate_table

\* should_truncate = truncate_table and idx == 1
ShouldTruncate(truncate_table, idx) == truncate_table /\ idx = 1

\* a loop over the files that stops at the first file that fails
NextFileAborting(idx, ok, n) == IF ok THEN idx + 1 ELSE n + 1

\* for idx, file in enumerate(file_list, 1): the except clause records the
\* error and the loop goes on with the next file
NextFile(idx, ok, n) == idx + 1

\* ------------------------------------------------------------------------
\* _import_multiple_pip_reports_files
\* ------------------------------------------------------------------------

\* the portability staging table as the log names it (its name is configuration)
IMPORT_TABLE_PORTABILIDADE == "IMPORT_TABLE_PORTABILIDADE"

\* for chunk_df in _read_file_in_chunks(file): _bulk_insert_with_copy(...),
\* from chunk k on; st is [table, ok, total_rows, log]
RECURSIVE PipChunksFrom(_, _, _, _)
PipChunksFrom(file, idx, k, st) ==
    IF k > Len(file.chunks) THEN st
    ELSE LET chunk == file.chunks[k]
             chunk_df == [i \in 1..Len(chunk.rows) |-> StampFile(chunk.rows[i], file.name)]
         IN  IF chunk.fault = "parse"
             THEN [st EXCEPT !.ok = FALSE,
                             !.log = Append(@, Event("error", idx, k, IMPORT_TABLE_PORTABILIDADE))]
             ELSE IF chunk.fault = "load"
             THEN [st EXCEPT !.ok = FALSE,
                             !.table = Copy(@, chunk_df, chunk.fault),
                             !.log = Append(@, Event("error", idx, k, IMPORT_TABLE_PORTABILIDADE))]
             ELSE PipChunksFrom(file, idx, k + 1,
                      [st EXCEPT !.table = Copy(@, chunk_df, chunk.fault),
                                 !.total_rows = @ + Len(chunk_df),
                                 !.log = Append(@, Event("copy", idx, k, IMPORT_TABLE_PORTABILIDADE))])

\* _import_single_pip_report_file: create the table, truncate it when
\* asked, then load the chunks
ImportSinglePipReportFile(table, file, idx, truncate_table) ==
    PipChunksFrom(file, idx, 1,
        [table |-> Truncate(table, truncate_table), ok |-> TRUE, total_rows |-> 0,
         log |-> IF truncate_table
                 THEN <<Event("truncate", idx, 0, IMPORT_TABLE_PORTABILIDADE)>>
                 ELSE <<>>])

\* the loop of _import_multiple_pip_reports_files from file idx on; acc is
\* [table, results, log]
RECURSIVE PipFilesFrom(_, _, _, _)
PipFilesFrom(file_list, idx, truncate_table, acc) ==
    IF idx > Len(file_list) THEN acc
    ELSE LET file == file_list[idx]
             should_truncate == ShouldTruncate(truncate_table, idx)
             r == ImportSinglePipReportFile(acc.table, file, idx, should_truncate)
         IN  PipFilesFrom(file_list, NextFile(idx, r.ok, Len(file_list)), truncate_table,
                 [table |-> r.table,
                  results |-> Put(acc.results, file.name,
                                  IF r.ok THEN Success(r.total_rows) ELSE Error),
                  log |-> acc.log \o <<Event("attempt", idx, 0, "")>> \o r.log])

\* the same run was made just before
SameRun(loader, file_list, truncate_table) ==
    /\ run.loader = loader
    /\ run.file_list = file_list
    /\ run.truncate_table = truncate_table

import_multiple_pip_reports_files(file_list, truncate_table) ==
    \E out \in {PipFilesFrom(file_list, 1, truncate_table,
                   [table |-> import_table_portabilidade, results |-> <<>>, log |-> <<>>])} :
        /\ run.loader \in {"none", "pip"}
        /\ BagCardinality(out.table) <= MaxStaging
        /\ import_table_exists' = TRUE
        /\ import_table_portabilidade' = out.table
        /\ run' = [loader |-> "pip", file_list |-> file_list,
                   truncate_table |-> truncate_table,
                   results |-> out.results, log |-> out.log,
                   again |-> SameRun("pip", file_list, truncate_table)]
        /\ last' = [op |-> "import", ok |-> TRUE]
        /\ UNCHANGED <<tb_historico_exists, tb_portabilidade_historico, lookups,
                       resolution, nsapn_tables, nsapn_exists, validated>>

\* ------------------------------------------------------------------------
\* _import_multiple_files (numbering plan)
\* ------------------------------------------------------------------------

\* what _detect_file_type returns when no prefix matches
None == "None"

LowerCase == <<"a", "b", "c", "d", "e", "f", "g", "h", "i", "j", "k", "l", "m",
               "n", "o", "p", "q", "r", "s", "t", "u", "v", "w", "x", "y", "z">>
UpperCase == <<"A", "B", "C", "D", "E", "F", "G", "H", "I", "J", "K", "L", "M",
               "N", "O", "P", "Q", "R", "S", "T", "U", "V", "W", "X", "Y", "Z">>

\* the upper-case letter of each lower-case letter
UpperOf ==
    [c \in {LowerCase[j] : j \in 1..Len(LowerCase)} |->
        UpperCase[CHOOSE j \in 1..Len(LowerCase) : LowerCase[j] = c]]

\* str.upper() on a str, a sequence of one-character strings
Upper(s) ==
    [i \in 1..Len(s) |-> IF s[i] \in DOMAIN UpperOf THEN UpperOf[s[i]] ELSE s[i]]

\* str.startswith
StartsWith(s, prefix) ==
    Len(s) >= Len(prefix) /\ SubSeq(s, 1, Len(prefix)) = prefix

\* _detect_file_type
DetectFileType(name) ==
    LET filename_upper == Upper(name)
    IN  IF StartsWith(filename_upper, <<"S", "T", "F", "C">>) THEN "STFC"
        ELSE IF \/ StartsWith(filename_upper, <<"S", "M", "P">>)
                \/ StartsWith(filename_upper, <<"S", "M", "E">>) THEN "SMP_SME"
        ELSE IF StartsWith(filename_upper, <<"C", "N", "G">>) THEN "CNG"
        ELSE IF StartsWith(filename_upper, <<"S", "U", "P">>) THEN "SUP"
        ELSE None

\* _get_file_config(file_type)["table"]; the function raises ValueError for
\* any other file type
TableOf(file_type) ==
    CASE file_type \in {"STFC", "SMP_SME"} -> TABLE_NUMERACAO
      [] file_type = "CNG" -> TABLE_CNG
      [] file_type = "SUP" -> TABLE_SUP

\* a parsed row of a numbering file; cnpj_prestadora is a str, and <<>> when
\* the field is empty (read as NA, loaded as NULL)
NsapnRow(nome, cnpj) == [nome_prestadora |-> nome, cnpj_prestadora |-> cnpj]

\* numbering files: a fixed-telephony file, a mobile file named in lower
\* case whose second chunk fails to load, a non-geographic file, a file
\* whose name carries no tag, and one that carries the tag inside the name
NsapnFiles ==
    {File("nsapn", <<"S", "T", "F", "C", "_", "A">>,
          <<Chunk(<<NsapnRow("VIVO", <<"3">>)>>, "none")>>),
     File("nsapn", <<"s", "m", "p", "_", "b">>,
          <<Chunk(<<NsapnRow("TIM SA", <<"1">>)>>, "none"),
            Chunk(<<NsapnRow("TIM SA", <<"4">>), NsapnRow("TIM SA", <<"5">>)>>, "load"),
            Chunk(<<NsapnRow("TIM SA", <<"6">>)>>, "none")>>),
     File("nsapn", <<"C", "N", "G", "_", "C">>,
          <<Chunk(<<NsapnRow("EMBRATEL", <<"2">>)>>, "none")>>),
     File("nsapn", <<"L", "E", "I", "A", "M", "E">>,
          <<Chunk(<<NsapnRow("VIVO", <<"7">>)>>, "none")>>),
     File("nsapn", <<"X", "_", "S", "T", "F", "C">>,
          <<Chunk(<<NsapnRow("VIVO", <<"8">>)>>, "none")>>)}

\* numbering files that name carriers: code 2 in a non-geographic file, code
\* 1 under another name in a fixed-telephony file, and a mobile file whose
\* carrier number is not numeric
RegistryFiles ==
    {File("nsapn", <<"C", "N", "G", "_", "R">>,
          <<Chunk(<<NsapnRow("EMBRATEL", <<"2">>)>>, "none")>>),
     File("nsapn", <<"S", "T", "F", "C", "_", "R">>,
          <<Chunk(<<NsapnRow("TIM", <<"1">>)>>, "none")>>),
     File("nsapn", <<"S", "M", "P", "_", "R">>,
          <<Chunk(<<NsapnRow("VIVO", <<"3", "/", "1">>)>>, "none")>>)}

\* _detect_file_type(file.name) of each of these files
file_type_of ==
    [name \in {file.name : file \in NsapnFiles \cup RegistryFiles} |-> DetectFileType(name)]

\* chunk["servico"] = file_type for telephony files; chunk["nome_arquivo"]
StampNsapn(row, file_type, name) ==
    [nome_prestadora |-> row.nome_prestadora,
     cnpj_prestadora |-> row.cnpj_prestadora,
     servico |-> IF file_type \in {"STFC", "SMP_SME"} THEN file_type ELSE NULLTEXT,
     nome_arquivo |-> name]

\* the chunk loop of _import_single_file from chunk k on; st is
\* [tables, ok, total_rows, log]
RECURSIVE NsapnChunksFrom(_, _, _, _, _, _)
NsapnChunksFrom(file, file_type, idx, truncate_table, k, st) ==
    IF k > Len(file.chunks) THEN st
    ELSE LET chunk == file.chunks[k]
             table_name == TableOf(file_type)
             chunk_df == [i \in 1..Len(chunk.rows) |->
                             StampNsapn(chunk.rows[i], file_type, file.name)]
             \* the first chunk creates the table and truncates it when asked
             first == k = 1 /\ truncate_table
             st0 == IF k = 1 THEN [st EXCEPT !.created = @ \cup {table_name}] ELSE st
             st1 == IF first
                    THEN [st0 EXCEPT !.tables[table_name] = Truncate(@, truncate_table),
                                     !.log = Append(@, Event("truncate", idx, k, table_name))]
                    ELSE st0
         IN  IF chunk.fault = "parse"
             THEN [st EXCEPT !.ok = FALSE,
                             !.log = Append(@, Event("error", idx, k, table_name))]
             ELSE IF chunk.fault = "load"
             THEN [st1 EXCEPT !.ok = FALSE,
                              !.tables[table_name] = Copy(@, chunk_df, chunk.fault),
                              !.log = Append(@, Event("error", idx, k, table_name))]
             ELSE NsapnChunksFrom(file, file_type, idx, truncate_table, k + 1,
                      [st1 EXCEPT !.tables[table_name] = Copy(@, chunk_df, chunk.fault),
                                  !.total_rows = @ + Len(chunk_df),
                                  !.log = Append(@, Event("copy", idx, k, table_name))])

\* _import_single_file: _read_file_in_chunks detects the file type and asks
\* for its configuration before it reads; an unknown type raises there
ImportSingleFile(tables, created, file, idx, truncate_table) ==
    LET file_type == file_type_of[file.name]
        st == [tables |-> tables, created |-> created, ok |-> TRUE,
               total_rows |-> 0, log |-> <<>>]
    IN  IF file_type = None
        THEN [st EXCEPT !.ok = FALSE, !.log = <<Event("error", idx, 0, "")>>]
        ELSE NsapnChunksFrom(file, file_type, idx, truncate_table, 1, st)

\* the loop of _import_multiple_files from file idx on; acc is
\* [tables, results, log]
RECURSIVE NsapnFilesFrom(_, _, _, _)
NsapnFilesFrom(file_list, idx, truncate_table, acc) ==
    IF idx > Len(file_list) THEN acc
    ELSE LET file == file_list[idx]
             should_truncate == ShouldTruncate(truncate_table, idx)
             r == ImportSingleFile(acc.tables, acc.created, file, idx, should_truncate)
         IN  NsapnFilesFrom(file_list, NextFile(idx, r.ok, Len(file_list)), truncate_table,
                 [tables |-> r.tables,
                  created |-> r.created,
                  results |-> Put(acc.results, file.name,
                                  IF r.ok THEN Success(r.total_rows) ELSE Error),
                  log |-> acc.log \o <<Event("attempt", idx, 0, "")>> \o r.log])

import_multiple_files(file_list, truncate_table) ==
    \E out \in {NsapnFilesFrom(file_list, 1, truncate_table,
                   [tables |-> nsapn_tables, created |-> nsapn_exists,
                    results |-> <<>>, log |-> <<>>])} :
        /\ run.loader \in {"none", "nsapn"}
        /\ \A t \in NsapnTables : BagCardinality(out.tables[t]) <= MaxStaging
        /\ nsapn_tables' = out.tables
        /\ nsapn_exists' = out.created
        /\ run' = [loader |-> "nsapn", file_list |-> file_list,
                   truncate_table |-> truncate_table,
                   results |-> out.results, log |-> out.log,
                   again |-> SameRun("nsapn", file_list, truncate_table)]
        /\ UNCHANGED <<portabilidade, lookups, last, resolution, validated>>

\* ------------------------------------------------------------------------
\* The files of the import runs
\* ------------------------------------------------------------------------

\* files in one run
MaxFiles == 2

\* an empty number field of a report
NoNumber == <<>>

\* a data_agendamento text that is not in the format %d/%m/%Y %H:%M:%S
BadTimestamp == [date |-> -8, time |-> -8]

\* pd.read_csv with dtype int for numero_bp and tn_inicial: an empty field
\* in an integer column raises ValueError
ReadCsvFails(raw) ==
    \E i \in DOMAIN raw : raw[i].numero_bp = NULL \/ raw[i].tn_inicial = NoNumber

\* parse_dates with date_format: when a value of the chunk cannot be parsed
\* the column is left as text, and the COPY into the TIMESTAMP column fails;
\* an empty field becomes NaT
CopyFails(raw) == \E i \in DOMAIN raw : raw[i].data_agendamento = BadTimestamp

\* _process_chunk: df.dropna(subset=["numero_bp", "tn_inicial"])
ProcessChunk(df) ==
    SelectSeq(df, LAMBDA r : r.numero_bp # NULL /\ r.tn_inicial # NoNumber)

\* the chunk _read_file_in_chunks yields for the raw rows of a report, and
\* what goes wrong with it
ChunkOf(raw) ==
    IF ReadCsvFails(raw) THEN Chunk(raw, "parse")
    ELSE Chunk(ProcessChunk(raw), IF CopyFails(raw) THEN "load" ELSE "none")

\* PIP reports: one chunk; three chunks of which the second holds a date
\* that cannot be parsed; a report with a row without numero_bp; a report of
\* a sub-directory, named as the first, with a row without date
PipFiles ==
    {File("pip", "A.csv.gz",
          <<ChunkOf(<<PipRow(T11, Timestamp(1, 0), 1, 7266080)>>)>>),
     File("pip", "B.csv.gz",
          <<ChunkOf(<<PipRow(T11, Timestamp(2, 0), 1, 7266082)>>),
            ChunkOf(<<PipRow(T11, Timestamp(2, 0), 1, 7266083),
                      PipRow(T11, BadTimestamp, 1, 7266084)>>),
            ChunkOf(<<PipRow(T11, Timestamp(2, 0), 1, 7266085)>>)>>),
     File("pip", "C.csv.gz",
          <<ChunkOf(<<PipRow(T11, Timestamp(2, 0), 1, 7266086),
                      PipRow(T11, Timestamp(2, 0), 1, NULL)>>)>>),
     File("pip/sub", "A.csv.gz",
          <<ChunkOf(<<PipRow(T10, NoTimestamp, 1, 7266087)>>)>>)}

\* what a directory scan yields: 1..MaxFiles files, no path twice
FileLists(files) ==
    {file_list \in UNION {[1..n -> files] : n \in 1..MaxFiles} :
        \A i, j \in DOMAIN file_list : file_list[i] = file_list[j] => i = j}

\* a database without staging rows
ImportInit ==
    /\ import_table_exists = FALSE
    /\ import_table_portabilidade = EmptyBag
    /\ tb_historico_exists = FALSE
    /\ tb_portabilidade_historico = {}
    /\ tb_numeracao = {}
    /\ tb_prestadoras = {}
    /\ results = <<>>
    /\ last = [op |-> "init", ok |-> TRUE]
    /\ numbers_to_query = NoScratch
    /\ calls = <<>>
    /\ nsapn_tables = [t \in NsapnTables |-> EmptyBag]
    /\ nsapn_exists = {}
    /\ run = NoRun
    /\ validated = NotValidated

\* import runs of one loader: the two loaders write to different tables
ImportNext ==
    \/ \E file_list \in FileLists(PipFiles), truncate_table \in BOOLEAN :
           import_multiple_pip_reports_files(file_list, truncate_table)
    \/ \E file_list \in FileLists(NsapnFiles), truncate_table \in BOOLEAN :
           import_multiple_files(file_list, truncate_table)

ImportSpec == ImportInit /\ [][ImportNext]_vars

\* ------------------------------------------------------------------------
\* load_pip_reports
\* ------------------------------------------------------------------------

\* a loader that consolidates only when every file was imported
ConsolidatesOnSuccess(results_) ==
    \A n \in DOMAIN results_ : results_[n].status = "success"

\* _update_tb_portabilidade_historico() is called whatever the report of
\* the import says
Consolidates(results_) == TRUE

\* the whole of load_pip_reports for the files found under input_path: the
\* import of the files, the rebuild or creation of the history table, the
\* consolidation.  Indexes have no effect on the rows and are left out.
load_pip_reports(file_list, truncate_table, rebuild_database) ==
    IF file_list = <<>>
    THEN \* "No CSV (*.csv.gz) files found": return {}
         /\ run' = [loader |-> "pip", file_list |-> file_list,
                    truncate_table |-> truncate_table,
                    results |-> <<>>, log |-> <<>>, again |-> FALSE]
         /\ last' = [op |-> "load", ok |-> TRUE]
         /\ UNCHANGED <<portabilidade, lookups, resolution, nsapn_tables,
                        nsapn_exists, validated>>
    ELSE \E out \in {PipFilesFrom(file_list, 1, truncate_table,
                        [table |-> import_table_portabilidade, results |-> <<>>,
                         log |-> <<>>])} :
         LET \* _drop_tb_portabilidade_historico, _create_tb_portabilidade_historico
             historico == IF rebuild_database \/ ~tb_historico_exists
                          THEN {} ELSE tb_portabilidade_historico
         IN  /\ run.loader \in {"none", "pip"}
             /\ BagCardinality(out.table) <= MaxStaging
             /\ import_table_exists' = TRUE
             /\ import_table_portabilidade' = out.table
             /\ tb_historico_exists' = TRUE
             /\ UNCHANGED <<lookups, resolution, nsapn_tables, nsapn_exists, validated>>
             /\ IF Consolidates(out.results)
                THEN /\ run' = [loader |-> "pip", file_list |-> file_list,
                                truncate_table |-> truncate_table,
                                results |-> out.results,
                                log |-> Append(out.log, Event("consolidate", 0, 0, "")),
                                again |-> SameRun("pip", file_list, truncate_table)]
                     /\ \E entrada \in PortEntrada(BagToSet(out.table)) :
                            IF NotNullViolation(entrada)
                            THEN \* the statement fails, conn.rollback(), raise
                                 /\ tb_portabilidade_historico' = historico
                                 /\ last' = [op |-> "load", ok |-> FALSE]
                            ELSE /\ tb_portabilidade_historico' = Upsert(historico, entrada)
                                 /\ last' = [op |-> "load", ok |-> TRUE]
                ELSE /\ run' = [loader |-> "pip", file_list |-> file_list,
                                truncate_table |-> truncate_table,
                                results |-> out.results, log |-> out.log,
                                again |-> SameRun("pip", file_list, truncate_table)]
                     /\ tb_portabilidade_historico' = historico
                     /\ last' = [op |-> "load", ok |-> TRUE]

\* the lists a scan of input_path can give: no file, or 1..MaxFiles files
LoadNext ==
    \E file_list \in {<<>>} \cup FileLists(PipFiles), truncate_table \in BOOLEAN, rebuild_database \in BOOLEAN :
        load_pip_reports(file_list, truncate_table, rebuild_database)

LoadSpec == ImportInit /\ [][LoadNext]_vars

\* ------------------------------------------------------------------------
\* update_table_prestadoras (the Carrier Registry Builder)
\* ------------------------------------------------------------------------

\* the staging tables the builder scans, in its order; the numbering tables
\* are the ones the numbering loader fills
import_table_sequence ==
    <<IMPORT_TABLE_PORTABILIDADE, TABLE_CNG, TABLE_SUP, TABLE_NUMERACAO>>

\* check_if_table_exists(IMPORT_SCHEMA, import_table)
ImportTableExists(import_table) ==
    IF import_table = IMPORT_TABLE_PORTABILIDADE THEN import_table_exists
    ELSE import_table \in nsapn_exists

\* the rows of a staging table
ImportTableRows(import_table) ==
    IF import_table = IMPORT_TABLE_PORTABILIDADE
    THEN BagToSet(import_table_portabilidade)
    ELSE BagToSet(nsapn_tables[import_table])

\* cnpj_prestadora::bigint fails on a text that is not a number
CastFails(rows) ==
    \E r \in rows :
        \E i \in DOMAIN r.cnpj_prestadora : ~IsDigit(r.cnpj_prestadora[i])

\* the CTE prestadoras of UPDATE_TB_PRESTADORAS_FROM_TB_PORTABILIDADE
PrestadorasFromPortabilidade(rows) ==
    {Prestadora(Coalesce(r.cod_receptora, SENTINEL),
                IF r.cod_receptora = NULL THEN NAO_IDENTIFICADO ELSE r.nome_receptora) :
        r \in {r \in rows : r.cod_receptora # NULL \/ r.nome_receptora # NULLTEXT}}
    \cup
    {Prestadora(Coalesce(r.cod_doadora, SENTINEL),
                IF r.cod_doadora = NULL THEN NAO_IDENTIFICADO ELSE r.nome_doadora) :
        r \in {r \in rows : r.cod_doadora # NULL \/ r.nome_doadora # NULLTEXT}}
    \cup {Prestadora(SENTINEL, NAO_IDENTIFICADO)}

\* the CTE prestadoras of UPDATE_TB_PRESTADORAS_FROM_TB_NUMERACAO
PrestadorasFromNumeracao(rows) ==
    {Prestadora(IF r.cnpj_prestadora = <<>> THEN SENTINEL ELSE IntOfStr(r.cnpj_prestadora),
                IF r.cnpj_prestadora = <<>> THEN NAO_IDENTIFICADO ELSE r.nome_prestadora) :
        r \in {r \in rows : r.cnpj_prestadora # <<>> \/ r.nome_prestadora # NULLTEXT}}
    \cup {Prestadora(SENTINEL, NAO_IDENTIFICADO)}

\* an INSERT that replaces the record of a code the source names
InsertOrRename(table, pn) ==
    {tp \in table : \A p \in pn : p.cod_prestadora # tp.cod_prestadora} \cup pn

\* INSERT ... SELECT ... LEFT JOIN tb_prestadoras tp ... WHERE
\* tp.cod_prestadora IS NULL: the carriers whose code is not in the registry
\* are added
InsertNew(table, pn) ==
    table \cup {p \in pn : \A tp \in table : tp.cod_prestadora # p.cod_prestadora}

\* cod_prestadora BIGINT PRIMARY KEY
PrestadorasPkeyViolation(table) ==
    \E p, q \in table : p.cod_prestadora = q.cod_prestadora /\ p # q

\* cursor.execute of the INSERT for one staging table: the rows of the
\* registry after it, and whether the statement succeeded
InsertPrestadoras(import_table, table) ==
    LET rows == ImportTableRows(import_table)
    IN  IF import_table # IMPORT_TABLE_PORTABILIDADE /\ CastFails(rows)
        THEN [table |-> table, ok |-> FALSE]
        ELSE LET pn == IF import_table = IMPORT_TABLE_PORTABILIDADE
                       THEN PrestadorasFromPortabilidade(rows)
                       ELSE PrestadorasFromNumeracao(rows)
                 inserted == InsertNew(table, pn)
             IN  IF PrestadorasPkeyViolation(inserted)
                 THEN [table |-> table, ok |-> FALSE]
                 ELSE [table |-> inserted, ok |-> TRUE]

\* conn.commit() after the statement of each source; conn.rollback() undoes
\* the failed statement only
CommitEach(before, after, ok) == after

\* for import_table in import_table_sequence, from position i on; st is
\* [table, ok, scanned]
RECURSIVE UpdateFrom(_, _)
UpdateFrom(i, st) ==
    IF i > Len(import_table_sequence) THEN st
    ELSE IF ~ImportTableExists(import_table_sequence[i]) THEN UpdateFrom(i + 1, st)
    ELSE LET r == InsertPrestadoras(import_table_sequence[i], st.table)
         IN  IF r.ok
             THEN UpdateFrom(i + 1, [st EXCEPT !.table = r.table,
                                               !.scanned = Append(@, import_table_sequence[i])])
             ELSE [st EXCEPT !.ok = FALSE]

update_table_prestadoras ==
    \E out \in {UpdateFrom(1, [table |-> tb_prestadoras, ok |-> TRUE, scanned |-> <<>>])} :
        /\ tb_prestadoras' = CommitEach(tb_prestadoras, out.table, out.ok)
        /\ last' = [op |-> "prestadoras", ok |-> out.ok, scanned |-> out.scanned]
        /\ UNCHANGED <<portabilidade, tb_numeracao, results, resolution, imports,
                       validated>>

\* rows of PIP reports that name carriers: code 1 under its name, code 1
\* under another name, a row without recipient whose donor is code 2, and
\* a row that names no carrier
RegistryPipRow(rec, nome_rec, doa, nome_doa, bp) ==
    [PipRow(T11, Timestamp(1, 0), rec, bp) EXCEPT
        !.nome_receptora = nome_rec, !.cod_doadora = doa, !.nome_doadora = nome_doa]

RegistryPipRows ==
    {RegistryPipRow(1, "TIM SA", NULL, NULLTEXT, 7266080),
     RegistryPipRow(1, "TIM", NULL, NULLTEXT, 7266081),
     RegistryPipRow(NULL, NULLTEXT, 2, "EMBRATEL", 7266082),
     RegistryPipRow(NULL, NULLTEXT, NULL, NULLTEXT, 7266083)}

\* an empty database
RegistryInit ==
    /\ import_table_exists = FALSE
    /\ import_table_portabilidade = EmptyBag
    /\ tb_historico_exists = FALSE
    /\ tb_portabilidade_historico = {}
    /\ tb_numeracao = {}
    /\ tb_prestadoras = {}
    /\ results = <<>>
    /\ last = [op |-> "init", ok |-> TRUE]
    /\ numbers_to_query = NoScratch
    /\ calls = <<>>
    /\ nsapn_tables = [t \in NsapnTables |-> EmptyBag]
    /\ nsapn_exists = {}
    /\ run = NoRun
    /\ validated = NotValidated

\* imports and registry builds in any order
RegistryNext ==
    \/ \E row \in RegistryPipRows, truncate_table \in BOOLEAN :
           import_single_pip_report_file("A.csv.gz", row, truncate_table)
    \/ \E file \in RegistryFiles, truncate_table \in BOOLEAN :
           import_multiple_files(<<file>>, truncate_table)
    \/ update_table_prestadoras

RegistrySpec == RegistryInit /\ [][RegistryNext]_vars

\* ------------------------------------------------------------------------
\* Concurrent query_numbers_carriers calls, statement by statement
\* ------------------------------------------------------------------------

\* two callers, each on its own connection
Calls == {1, 2}

OtherCall(c) == CHOOSE o \in Calls : o # c

\* the batches of the concurrent calls
ConcurrentBatches == {<<T11>>, <<T10>>, <<T10, T7>>, <<T11, T11>>}

\* a call that passed validation and is about to connect
StartedCall(numbers, ref) ==
    [pc |-> "start", numbers |-> numbers, ref |-> ref, dropped |-> FALSE,
     results |-> <<>>, error |-> ""]

\* the call holds a lock on the committed scratch table: ACCESS SHARE from
\* its SELECT until its transaction ends
HoldsReadLock(c) == calls[c].pc \in {"selected", "waiting"}

\* the call holds ACCESS EXCLUSIVE on the committed scratch table: it
\* dropped it in a transaction that is still open
HoldsDropLock(c) == calls[c].pc = "created" /\ calls[c].dropped

\* cur.execute(create_temp_table): DROP TABLE IF EXISTS; CREATE TABLE, in
\* the transaction the connection opens.  The DROP waits while another call
\* holds a lock on the table.  While another call's CREATE of the same name
\* is uncommitted, the CREATE waits for it and then fails.
create_temp_table(c) ==
    LET o == OtherCall(c)
    IN  /\ calls[c].pc = "start"
        /\ ~(numbers_to_query.exists /\ HoldsReadLock(o))
        /\ IF calls[o].pc = "created"
           THEN calls' = [calls EXCEPT ![c].pc = "failed",
                                       ![c].error = "DuplicateTable"]
           ELSE calls' = [calls EXCEPT ![c].pc = "created",
                                       ![c].dropped = numbers_to_query.exists]
        /\ UNCHANGED <<portabilidade, lookups, last, numbers_to_query,
                       imports, validated>>

\* bulk_insert_with_copy(conn, df, copy_sql): COPY, then conn.commit(); a
\* batch that repeats a number violates the primary key, conn.rollback()
bulk_insert_with_copy(c) ==
    /\ calls[c].pc = "created"
    /\ IF CopyViolatesPkey(calls[c].numbers)
       THEN /\ calls' = [calls EXCEPT ![c].pc = "failed",
                                      ![c].error = "UniqueViolation"]
            /\ UNCHANGED numbers_to_query
       ELSE /\ numbers_to_query' =
                   [exists |-> TRUE,
                    rows |-> {NtqRow(calls[c].numbers[i]) :
                                 i \in 1..Len(calls[c].numbers)},
                    creator |-> c]
            /\ calls' = [calls EXCEPT ![c].pc = "copied"]
    /\ UNCHANGED <<portabilidade, lookups, last, imports, validated>>

\* cur.execute(query_numbers_carriers, (ref_date,)); cur.fetchall(): the
\* SELECT reads the table that carries the name when it runs.  It waits
\* while another call holds ACCESS EXCLUSIVE, and fails when no table of the
\* name exists.
execute_query(c) ==
    /\ calls[c].pc = "copied"
    /\ ~HoldsDropLock(OtherCall(c))
    /\ IF ~numbers_to_query.exists
       THEN calls' = [calls EXCEPT ![c].pc = "failed",
                                   ![c].error = "UndefinedTable"]
       ELSE \E rows \in SelectChoices(numbers_to_query.rows, calls[c].ref) :
            \E sq \in Orderings(rows) :
                calls' = [calls EXCEPT ![c].pc = "selected", ![c].results = sq]
    /\ UNCHANGED <<portabilidade, lookups, last, numbers_to_query,
                   imports, validated>>

\* cur.execute(DROP TABLE IF EXISTS ...); conn.commit(): the DROP needs
\* ACCESS EXCLUSIVE.  It waits while the other call holds its read lock;
\* when the other call is itself waiting for this call's read lock the
\* database aborts one of the two transactions (deadlock).
drop_temp_table(c) ==
    LET o == OtherCall(c)
    IN  /\ calls[c].pc = "selected"
        /\ IF calls[o].pc = "waiting"
           THEN /\ \E victim \in Calls :
                       calls' = [calls EXCEPT
                                    ![victim].pc = "failed",
                                    ![victim].error = "DeadlockDetected",
                                    ![OtherCall(victim)].pc = "waiting"]
                /\ UNCHANGED numbers_to_query
           ELSE IF calls[o].pc = "selected"
           THEN /\ calls' = [calls EXCEPT ![c].pc = "waiting"]
                /\ UNCHANGED numbers_to_query
           ELSE /\ calls' = [calls EXCEPT ![c].pc = "returned"]
                /\ numbers_to_query' = NoScratch
        /\ UNCHANGED <<portabilidade, lookups, last, imports, validated>>

\* the DROP that waited gets its lock once the other transaction has ended
drop_after_wait(c) ==
    /\ calls[c].pc = "waiting"
    /\ ~HoldsReadLock(OtherCall(c))
    /\ calls' = [calls EXCEPT ![c].pc = "returned"]
    /\ numbers_to_query' = NoScratch
    /\ UNCHANGED <<portabilidade, lookups, last, imports, validated>>

\* the loaded database, no scratch table, and two calls that passed
\* validation
ConcurrentInit ==
    /\ import_table_exists = TRUE
    /\ import_table_portabilidade = EmptyBag
    /\ tb_historico_exists = TRUE
    /\ tb_portabilidade_historico \in PortEntrada(QueryPipRows)
    /\ tb_numeracao = PlanRows
    /\ tb_prestadoras \in Registries
    /\ results = <<>>
    /\ last = [op |-> "init", ok |-> TRUE]
    /\ numbers_to_query = NoScratch
    /\ calls \in [Calls -> {StartedCall(b, r) : b \in ConcurrentBatches, r \in {1}}]
    /\ nsapn_tables = [t \in NsapnTables |-> EmptyBag]
    /\ nsapn_exists = {}
    /\ run = NoRun
    /\ validated = NotValidated

ConcurrentNext ==
    \E c \in Calls :
        \/ create_temp_table(c)
        \/ bulk_insert_with_copy(c)
        \/ execute_query(c)
        \/ drop_temp_table(c)
        \/ drop_after_wait(c)

ConcurrentSpec == ConcurrentInit /\ [][ConcurrentNext]_vars

\* ------------------------------------------------------------------------
\* validate_date on its own
\* ------------------------------------------------------------------------

\* YYYYMMDD numbers around the ends of the months of a common and of a leap
\* year, months 0 and 13 and days 0 and 32 included
DateNumbers ==
    {y * 10000 + m * 100 + d :
        y \in {2023, 2024}, m \in 0..13, d \in {0, 1, 28, 29, 30, 31, 32}}

\* the arguments of validate_date: the numbers as int and as str, numbers of
\* 7 and 9 digits, a negative number, strings with other characters, the
\* empty string, and no date
ValidateArgs ==
    {IntValue(n) : n \in DateNumbers}
    \cup {StrValue(StrOfInt(n)) : n \in DateNumbers}
    \cup {IntValue(2023125), IntValue(202312250), IntValue(-2023125),
          StrValue(StrOfInt(2023125)), StrValue(StrOfInt(202312250)),
          StrValue(<<"2", "0", "2", "3", "-", "1", "2", "-", "2", "5">>),
          StrValue(<<"2", "0", "2", "3", "1", "2", "2", "a">>),
          StrValue(<<"0", "0", "0", "0", "0", "1", "0", "1">>),
          StrValue(<<>>),
          NoneValue}

call_validate_date ==
    /\ ~validated.done
    /\ validated' = [done |-> TRUE, arg |-> validated.arg,
                     ok |-> validate_date(validated.arg).ok,
                     error |-> validate_date(validated.arg).error,
                     value |-> validate_date(validated.arg).value]
    /\ UNCHANGED <<portabilidade, lookups, last, resolution, imports>>

ValidateInit ==
    /\ import_table_exists = FALSE
    /\ import_table_portabilidade = EmptyBag
    /\ tb_historico_exists = FALSE
    /\ tb_portabilidade_historico = {}
    /\ tb_numeracao = {}
    /\ tb_prestadoras = {}
    /\ results = <<>>
    /\ last = [op |-> "init", ok |-> TRUE]
    /\ numbers_to_query = NoScratch
    /\ calls = <<>>
    /\ nsapn_tables = [t \in NsapnTables |-> EmptyBag]
    /\ nsapn_exists = {}
    /\ run = NoRun
    /\ validated \in {[NotValidated EXCEPT !.arg = a] : a \in ValidateArgs}

ValidateNext == call_validate_date

ValidateSpec == ValidateInit /\ [][ValidateNext]_vars

Next ==
    \/ \E name \in FileNames, row \in PipRows, t \in BOOLEAN :
           import_single_pip_report_file(name, row, t)
    \/ drop_tb_portabilidade_historico
    \/ create_tb_portabilidade_historico
    \/ update_tb_portabilidade_historico

Spec == Init /\ [][Next]_vars
\* ------------------------------------------------------------------------
\* Properties of the resolution engine (QuerySpec)
\* ------------------------------------------------------------------------

QueryReturned == last.op = "query" /\ last.ok

\* the scratch row a result row was computed from
ScratchOf(row) == CHOOSE q \in last.scratch : q.nu_terminal = row.nu_terminal

\* history records of a number's (areaCode, phoneNumber) dated on or before,
\* and after, the reference date of the call
EventsOnOrBefore(q) ==
    {h \in tb_portabilidade_historico :
        h.cn = q.cn /\ h.tn_inicial = q.nu_terminal /\ h.data_agendamento <= last.ref}

EventsAfter(q) ==
    {h \in tb_portabilidade_historico :
        h.cn = q.cn /\ h.tn_inicial = q.nu_terminal /\ h.data_agendamento > last.ref}

\* numbering-plan entries whose (areaCode, prefix) match and whose range
\* contains the number
PlanEntriesOf(q) ==
    {n \in tb_numeracao :
        /\ n.cn = q.cn /\ n.prefixo = q.prefixo
        /\ BigLeq(n.faixa_inicial, q.nu_terminal)
        /\ BigLeq(q.nu_terminal, n.faixa_final)}

\* the registry name of a carrier code, null when the registry has none
RegistryName(cod) ==
    IF \E p \in tb_prestadoras : p.cod_prestadora = cod
    THEN (CHOOSE p \in tb_prestadoras : p.cod_prestadora = cod).nome_prestadora
    ELSE NULLTEXT

\* what the numbering plan alone says about a number
PlanNames(q) ==
    IF PlanEntriesOf(q) = {} THEN {NULLTEXT}
    ELSE {RegistryName(n.cod_prestadora) : n \in PlanEntriesOf(q)}

\* C1: point-in-time correctness. A result row is decided by the history
\* records of the number dated on or before the reference date alone: with
\* such a record the row carries a recipient carrier and ind_portado = 1;
\* without one the row is what the numbering plan gives, ind_portado = 0,
\* whatever records dated after the reference date exist.
C1_PointInTime ==
    QueryReturned =>
        \A i \in 1..Len(results) :
            LET r == results[i]
                q == ScratchOf(r)
            IN  /\ EventsOnOrBefore(q) # {} =>
                       /\ r.ind_portado = 1
                       /\ \E h \in EventsOnOrBefore(q) :
                              r.nome_prestadora = RegistryName(h.cod_receptora)
                /\ EventsOnOrBefore(q) = {} =>
                       /\ r.ind_portado = 0
                       /\ r.nome_prestadora \in PlanNames(q)

\* a row decided by an event on or before the reference date: its carrier
\* is neither the plan's carrier nor the recipient of a later event
C1_Witness ==
    /\ QueryReturned
    /\ \E i \in 1..Len(results) :
           LET q == ScratchOf(results[i])
           IN  /\ EventsOnOrBefore(q) # {}
               /\ EventsAfter(q) # {}
               /\ PlanEntriesOf(q) # {}
               /\ results[i].ind_portado = 1
               /\ results[i].nome_prestadora \notin PlanNames(q)
               /\ \A h \in EventsAfter(q) :
                      results[i].nome_prestadora # RegistryName(h.cod_receptora)

\* C2: among the history records of the number dated on or before the
\* reference date, the carrier comes from the one with the greatest date.
C2_MostRecent ==
    QueryReturned =>
        \A i \in 1..Len(results) :
            LET r == results[i]
                ev == EventsOnOrBefore(ScratchOf(r))
            IN  ev # {} =>
                    \E h \in ev :
                        /\ \A g \in ev : g.data_agendamento <= h.data_agendamento
                        /\ r.nome_prestadora = RegistryName(h.cod_receptora)

\* two records on or before the reference date, with different recipients
C2_Witness ==
    /\ QueryReturned
    /\ \E i \in 1..Len(results) :
           \E h, g \in EventsOnOrBefore(ScratchOf(results[i])) :
               /\ h.data_agendamento < g.data_agendamento
               /\ RegistryName(h.cod_receptora) # RegistryName(g.cod_receptora)

\* C8: the carrier is the recipient of a history record when one is found,
\* else the carrier of a numbering-plan entry when one is found, else the
\* name is null (not the name of the sentinel carrier -1).
C8_ResolvedCarrier ==
    QueryReturned =>
        \A i \in 1..Len(results) :
            LET r == results[i]
                q == ScratchOf(r)
                ev == EventsOnOrBefore(q)
                plan == PlanEntriesOf(q)
            IN  /\ ev # {} =>
                       r.nome_prestadora \in {RegistryName(h.cod_receptora) : h \in ev}
                /\ (ev = {} /\ plan # {}) =>
                       r.nome_prestadora \in {RegistryName(n.cod_prestadora) : n \in plan}
                /\ (ev = {} /\ plan = {}) => r.nome_prestadora = NULLTEXT

\* both lookups miss while the registry holds the sentinel carrier
C8_Witness ==
    /\ QueryReturned
    /\ RegistryName(SENTINEL) = NAO_IDENTIFICADO
    /\ \E i \in 1..Len(results) :
           LET q == ScratchOf(results[i])
           IN  EventsOnOrBefore(q) = {} /\ PlanEntriesOf(q) = {}
    /\ \E i \in 1..Len(results) :
           LET q == ScratchOf(results[i])
           IN  EventsOnOrBefore(q) = {} /\ PlanEntriesOf(q) # {}

\* C9: every call emits exactly one row per distinct queried number, with
\* ind_portado = 1 iff a history record on or before the reference date was
\* found and ind_designado = 1 iff a numbering-plan entry was found.
C9_OneRowPerNumber ==
    last.op = "query" =>
        \A n \in Range(last.numbers) :
            /\ Cardinality({i \in 1..Len(results) :
                               results[i].nu_terminal = ToBigint(n)}) = 1
            /\ \A i \in 1..Len(results) :
                   results[i].nu_terminal = ToBigint(n) =>
                       /\ results[i].ind_portado = 1 <=>
                              EventsOnOrBefore(ScratchOf(results[i])) # {}
                       /\ results[i].ind_designado = 1 <=>
                              PlanEntriesOf(ScratchOf(results[i])) # {}

\* C10: a number whose length is neither 10 nor 11 gets cn = prefixo = -1
\* in the scratch table and its row has ind_designado = 0.
C10_MalformedLength ==
    QueryReturned =>
        \A n \in Range(last.numbers) :
            (Len(n) # 10 /\ Len(n) # 11) =>
                /\ \A q \in last.scratch :
                       q.nu_terminal = ToBigint(n) => q.cn = -1 /\ q.prefixo = -1
                /\ \A i \in 1..Len(results) :
                       results[i].nu_terminal = ToBigint(n) =>
                           results[i].ind_designado = 0

\* a 7-digit number was resolved while the plan holds an entry of its first
\* digits whose range contains it
C10_Witness ==
    /\ QueryReturned
    /\ \E n \in Range(last.numbers) :
           /\ Len(n) = 7
           /\ \E i \in 1..Len(results) : results[i].nu_terminal = ToBigint(n)
           /\ \E e \in tb_numeracao :
                  /\ e.cn = IntOf(SubSeq(n, 1, 2))
                  /\ e.prefixo = IntOf(SubSeq(n, 3, 7))
                  /\ BigLeq(e.faixa_inicial, ToBigint(n))
                  /\ BigLeq(ToBigint(n), e.faixa_final)

\* C11: the rows a call returns are ordered by nu_terminal ascending.
C11_OrderedByNumber ==
    QueryReturned =>
        \A i, j \in 1..Len(results) :
            i < j => BigLeq(results[i].nu_terminal, results[j].nu_terminal)

\* the batch of a call repeats a number
HasDuplicates(numbers) ==
    \E i, j \in 1..Len(numbers) :
        i # j /\ ToBigint(numbers[i]) = ToBigint(numbers[j])

\* C12: a batch in which a number appears more than once is resolved
\* successfully and yields exactly one row for that number.
C12_Deduplicated ==
    (last.op = "query" /\ HasDuplicates(last.numbers)) =>
        /\ last.ok
        /\ \A n \in Range(last.numbers) :
               Cardinality({i \in 1..Len(results) :
                               results[i].nu_terminal = ToBigint(n)}) = 1

\* the tables of the database
storage == <<import_table_exists, import_table_portabilidade,
             tb_historico_exists, tb_portabilidade_historico,
             tb_numeracao, tb_prestadoras>>

\* C14: a call with an empty batch or a malformed reference date raises a
\* ValueError or TypeError before a connection is acquired, returns no row
\* and leaves every table as it was.
C14_RejectedBeforeDatabase ==
    [][(/\ last'.op = "query"
        /\ last' # last
        /\ (Len(last'.numbers) = 0 \/ last'.reference_date \in MalformedDates)) =>
           /\ ~last'.ok
           /\ ~last'.connected
           /\ last'.error \in {"ValueError", "TypeError"}
           /\ results' = <<>>
           /\ UNCHANGED storage]_vars

\* a call with a batch of numbers and a malformed reference date was rejected
C14_Witness ==
    /\ last.op = "query"
    /\ Len(last.numbers) > 0
    /\ last.reference_date \in MalformedDates
    /\ ~last.ok

\* ------------------------------------------------------------------------
\* Properties of concurrent resolution calls (ConcurrentSpec)
\* ------------------------------------------------------------------------

\* the numbers of a call's batch, as the scratch table stores them
BatchOf(c) == {ToBigint(calls[c].numbers[i]) : i \in 1..Len(calls[c].numbers)}

\* the numbers of the rows a call fetched
FetchedBy(c) == {calls[c].results[i].nu_terminal : i \in 1..Len(calls[c].results)}

\* C13: concurrent calls do not interfere: the scratch table a call reads
\* is the one it created, the rows it fetched cover exactly its own batch,
\* and no call fails on the other call's scratch table.
C13_NoInterference ==
    \A c \in Calls :
        /\ calls[c].error \notin {"DuplicateTable", "UndefinedTable", "DeadlockDetected"}
        /\ calls[c].pc \in {"selected", "waiting", "returned"} =>
               FetchedBy(c) = BatchOf(c)
        /\ (calls[c].pc = "copied" /\ numbers_to_query.exists) =>
               numbers_to_query.creator = c

\* ------------------------------------------------------------------------
\* Properties of validate_date (ValidateSpec)
\* ------------------------------------------------------------------------

\* n is YYYYMMDD with eight digits and names a day of the calendar
RealDate(n) ==
    /\ n >= 10000000 /\ n <= 99999999
    /\ (n \div 100) % 100 \in 1..12
    /\ n % 100 >= 1
    /\ n % 100 <= DaysInMonth(n \div 10000, (n \div 100) % 100)

\* the decimal digits of a str, when it has eight and nothing else
EightDigits(s) == Len(s) = 8 /\ \A i \in 1..Len(s) : IsDigit(s[i])

\* C15: validate_date returns the date itself for an 8-digit calendar date
\* given as an int or as the equivalent str, and raises for a str with a
\* non-digit character, for an input whose length is not 8 and for a date
\* that is not in the calendar.
C15_ValidateDate ==
    validated.done =>
        LET a == validated.arg
        IN  /\ (a.type = "int" /\ RealDate(a.value)) =>
                   validated.ok /\ validated.value = a.value
            /\ (a.type = "str" /\ EightDigits(a.value) /\ RealDate(IntOfStr(a.value))) =>
                   validated.ok /\ validated.value = IntOfStr(a.value)
            /\ (a.type = "str" /\ \E i \in 1..Len(a.value) : ~IsDigit(a.value[i])) =>
                   ~validated.ok
            /\ (a.type = "str" /\ Len(a.value) # 8) => ~validated.ok
            /\ (a.type = "int" /\ (a.value < 10000000 \/ a.value > 99999999)) =>
                   ~validated.ok
            /\ (a.type = "int" /\ ~RealDate(a.value)) => ~validated.ok
            /\ (a.type = "str" /\ EightDigits(a.value) /\ ~RealDate(IntOfStr(a.value))) =>
                   ~validated.ok

\* the 29th of February of a leap year, given as a str, was validated
C15_Witness ==
    /\ validated.done
    /\ validated.arg = StrValue(<<"2", "0", "2", "4", "0", "2", "2", "9">>)
    /\ validated.ok
    /\ validated.value = 20240229

\* ------------------------------------------------------------------------
\* Properties of the History Consolidator (Spec)
\* ------------------------------------------------------------------------

Staged == BagToSet(import_table_portabilidade)

Consolidated == last.op = "update" /\ last.ok

\* a staging row and a history record share (phoneNumber, eventDate); the
\* areaCode is the first two digits of the phone number
SameKey(r, h) ==
    /\ r.tn_inicial = h.tn_inicial
    /\ r.data_agendamento.date = h.data_agendamento

\* two staging rows share (phoneNumber, eventDate)
SameStagingKey(r, q) ==
    /\ r.tn_inicial = q.tn_inicial
    /\ r.data_agendamento.date = q.data_agendamento.date

\* the history record carries the payload of the staging row
SamePayload(r, h) ==
    /\ h.numero_bp = r.numero_bp
    /\ h.cod_receptora = (IF r.cod_receptora = NULL THEN -1 ELSE r.cod_receptora)
    /\ h.cod_doadora = (IF r.cod_doadora = NULL THEN -1 ELSE r.cod_doadora)
    /\ h.nome_arquivo = r.nome_arquivo

\* no staging row of the same key has a file name that sorts after r's
SortsLast(r) ==
    \A q \in Staged :
        SameStagingKey(q, r) => Collate(q.nome_arquivo) <= Collate(r.nome_arquivo)

\* C3: a consolidation run that follows a successful run, with the staging
\* table unchanged in between, leaves the history table as it was.
C3_Idempotent ==
    [][(Consolidated /\ last'.op = "update") =>
           tb_portabilidade_historico' = tb_portabilidade_historico]_vars

\* C4: after a consolidation, the history record of a key that is in staging
\* is a staging row of that key whose file name sorts last, whatever the
\* times of day of the rows.
C4_FilenameDecides ==
    Consolidated =>
        \A h \in tb_portabilidade_historico :
            (\E r \in Staged : SameKey(r, h)) =>
                \E r \in Staged : SameKey(r, h) /\ SamePayload(r, h) /\ SortsLast(r)

\* two rows of one key from different files, the one of the file that sorts
\* last scheduled at the later time of day, were consolidated
C4_Witness ==
    /\ Consolidated
    /\ \E r, q \in Staged :
           /\ SameStagingKey(r, q)
           /\ Collate(r.nome_arquivo) > Collate(q.nome_arquivo)
           /\ r.data_agendamento.time > q.data_agendamento.time
           /\ \E h \in tb_portabilidade_historico : SameKey(r, h) /\ SamePayload(r, h)

\* C5: the winner is determined by the staging content: after a
\* consolidation the history holds the payload of every staging row whose
\* file name sorts last for its key, so rows that tie on key and file name
\* carry one payload.
C5_Deterministic ==
    Consolidated =>
        \A r \in Staged :
            SortsLast(r) =>
                \E h \in tb_portabilidade_historico : SameKey(r, h) /\ SamePayload(r, h)

\* C6: the history table holds at most one record per
\* (areaCode, phoneNumber, eventDate).
C6_UniqueKey ==
    \A h, g \in tb_portabilidade_historico :
        (h.cn = g.cn /\ h.tn_inicial = g.tn_inicial
            /\ h.data_agendamento = g.data_agendamento) => h = g

\* a consolidation met a key that staging holds twice and history once
C6_Witness ==
    /\ Consolidated
    /\ Cardinality(tb_portabilidade_historico) > 1
    /\ \E r, q \in Staged :
           /\ r # q
           /\ SameStagingKey(r, q)
           /\ \E h \in tb_portabilidade_historico : SameKey(r, h)

\* C7: a consolidation run on existing tables creates or replaces the
\* record of every staging key with the payload of a staging row of that
\* key, keeps one record per key, and leaves every record whose key is not
\* in staging as it was.
C7_Frame ==
    [][(import_table_exists /\ tb_historico_exists /\ last'.op = "update") =>
           /\ \A r \in Staged :
                  r.data_agendamento.date # NULL =>
                      \E h \in tb_portabilidade_historico' :
                          /\ SameKey(r, h)
                          /\ \E q \in Staged : SameStagingKey(q, r) /\ SamePayload(q, h)
           /\ \A h \in tb_portabilidade_historico :
                  (\A r \in Staged : ~SameKey(r, h)) =>
                      h \in tb_portabilidade_historico'
           /\ \A h, g \in tb_portabilidade_historico' :
                  (h.tn_inicial = g.tn_inicial
                      /\ h.data_agendamento = g.data_agendamento) => h = g]_vars

\* ------------------------------------------------------------------------
\* Claims about the import runs (ImportSpec)
\* ------------------------------------------------------------------------

\* positions of the log at which the staging table was truncated, at which
\* a chunk was committed, at which a file failed
Truncates == {i \in DOMAIN run.log : run.log[i].ev = "truncate"}
Copies == {i \in DOMAIN run.log : run.log[i].ev = "copy"}
Errors == {i \in DOMAIN run.log : run.log[i].ev = "error"}

\* C16: with truncation requested, an invocation over several files empties
\* the staging table exactly once, before the first file is loaded: never
\* once per file, and every committed chunk comes after the truncation.
C16_TruncatedOnceBeforeLoading ==
    (run.loader # "none" /\ run.truncate_table) =>
        /\ Cardinality(Truncates) <= 1
        /\ Copies # {} =>
              /\ Cardinality(Truncates) = 1
              /\ \A i \in Truncates, j \in Copies : i < j

Attempts == SelectSeq(run.log, LAMBDA e : e.ev = "attempt")

StagedFrom(file, k) ==
    LET staged == IF run.loader = "pip" THEN BagToSet(import_table_portabilidade)
                  ELSE UNION {BagToSet(nsapn_tables[t]) : t \in NsapnTables}
    IN  {x \in staged :
            /\ x.nome_arquivo = file.name
            /\ \E c \in k..Len(file.chunks) : \E i \in DOMAIN file.chunks[c].rows :
                   IF run.loader = "pip"
                   THEN x.numero_bp = file.chunks[c].rows[i].numero_bp
                   ELSE x.cnpj_prestadora = file.chunks[c].rows[i].cnpj_prestadora}

\* the chunks whose load failed in the run: <<file, chunk>> by position
FailedLoads ==
    {<<run.log[i].file, run.log[i].chunk>> : i \in
        {i \in Errors : /\ run.log[i].chunk >= 1
                        /\ run.file_list[run.log[i].file]
                               .chunks[run.log[i].chunk].fault = "load"}}

\* C19: a chunk whose load fails leaves none of its rows in staging, the
\* error reaches the caller (the file is reported as failed), and no later
\* chunk of that file is loaded.
C19_FailedChunkLeavesNothing ==
    run.loader # "none" =>
        \A fl \in FailedLoads :
            /\ StagedFrom(run.file_list[fl[1]], fl[2]) = {}
            /\ run.results[run.file_list[fl[1]].name] = Error
            /\ \A j \in DOMAIN run.log :
                   run.log[j].file = fl[1] /\ run.log[j].chunk >= fl[2]
                       => run.log[j].ev = "error"

\* the second chunk of a file failed to load after its first chunk was
\* committed, and the first chunk's rows are in staging
C19_Witness ==
    \E fl \in FailedLoads :
        /\ fl[2] = 2
        /\ Len(run.file_list[fl[1]].chunks) > 2
        /\ \E j \in Copies : run.log[j].file = fl[1] /\ run.log[j].chunk = 1
        /\ StagedFrom(run.file_list[fl[1]], 1) # {}

\* file names that carry none of the type tags at their start
UntaggedNames == {<<"L", "E", "I", "A", "M", "E">>, <<"X", "_", "S", "T", "F", "C">>}

\* C20: a numbering file whose name matches no type tag is skipped: it
\* writes nothing, counts zero rows and is not reported as a failed file.
C20_UnknownFileSkipped ==
    run.loader = "nsapn" =>
        \A i \in DOMAIN run.file_list :
            run.file_list[i].name \in UntaggedNames =>
                /\ \A j \in DOMAIN run.log :
                       run.log[j].file = i => run.log[j].ev \notin {"copy", "truncate"}
                /\ run.results[run.file_list[i].name].lines = 0
                /\ run.results[run.file_list[i].name].status # "error"

\* ------------------------------------------------------------------------
\* Claims about the registry builder (RegistrySpec)
\* ------------------------------------------------------------------------

\* C21: a failed run of the History Consolidator leaves the history table,
\* and a failed run of the Registry Builder leaves the carrier registry,
\* exactly as before the run.
C21_FailureRolledBack ==
    [][/\ (last'.op = "prestadoras" /\ ~last'.ok)
              => tb_prestadoras' = tb_prestadoras
       /\ (last'.op = "update" /\ ~last'.ok)
              => tb_portabilidade_historico' = tb_portabilidade_historico]_vars

\* C22: registry first-writer-wins: no step removes or renames a registry
\* record, and a record that a step adds has a code the registry did not hold.
C22_FirstWriterWins ==
    [][/\ tb_prestadoras \subseteq tb_prestadoras'
       /\ \A q \in tb_prestadoras' \ tb_prestadoras :
              \A p \in tb_prestadoras : p.cod_prestadora # q.cod_prestadora]_vars

\* the carriers the existing staging tables name
StagedCarriers ==
    (IF import_table_exists
     THEN PrestadorasFromPortabilidade(BagToSet(import_table_portabilidade))
     ELSE {})
    \cup UNION {IF CastFails(BagToSet(nsapn_tables[t])) THEN {}
                ELSE PrestadorasFromNumeracao(BagToSet(nsapn_tables[t])) :
                    t \in nsapn_exists}

\* a build succeeded while staging names a registered code otherwise than
\* the registry does
C22_Witness ==
    /\ last.op = "prestadoras"
    /\ last.ok
    /\ \E p \in tb_prestadoras : \E q \in StagedCarriers :
           /\ p.cod_prestadora = q.cod_prestadora
           /\ p.nome_prestadora # q.nome_prestadora

\* C23: after a successful run of the Registry Builder the registry holds
\* the sentinel record of code -1, whichever staging tables exist.
C23_SentinelPresent ==
    (last.op = "prestadoras" /\ last.ok) =>
        \E p \in tb_prestadoras : p.cod_prestadora = SENTINEL

\* no staging table holds a carrier number that is not numeric
NoCastFails == \A t \in nsapn_exists : ~CastFails(BagToSet(nsapn_tables[t]))

\* C29: when the staging tables name one carrier code under two names, a
\* registry build succeeds and leaves exactly one record for that code.
C29_TwoNamesOneRecord ==
    (last.op = "prestadoras" /\ NoCastFails) =>
        \A p, q \in StagedCarriers :
            (p.cod_prestadora = q.cod_prestadora /\ p # q) =>
                /\ last.ok
                /\ Cardinality({tp \in tb_prestadoras :
                                   tp.cod_prestadora = p.cod_prestadora}) = 1

\* ------------------------------------------------------------------------
\* Claims about the rows and the report of a PIP import (ImportSpec)
\* ------------------------------------------------------------------------

\* a row of a report without effective date or without one of its numbers
LacksCritical(r) ==
    \/ r.numero_bp = NULL
    \/ r.tn_inicial = NoNumber
    \/ r.data_agendamento \in {NoTimestamp, BadTimestamp}

\* C24: a portability row without effective date, numero_bp or tn_inicial
\* is dropped before the load: no staging row lacks one of them, and no
\* file fails at a chunk that holds such a row.
C24_CriticalRowsDropped ==
    run.loader = "pip" =>
        /\ \A x \in BagToSet(import_table_portabilidade) : ~LacksCritical(x)
        /\ \A i \in Errors :
               \A j \in DOMAIN run.file_list[run.log[i].file].chunks[run.log[i].chunk].rows :
                   ~LacksCritical(
                       run.file_list[run.log[i].file].chunks[run.log[i].chunk].rows[j])

\* rows of the chunks committed at the log positions js
RECURSIVE RowsCommitted(_)
RowsCommitted(js) ==
    IF js = {} THEN 0
    ELSE LET j == CHOOSE j \in js : TRUE
         IN  Len(run.file_list[run.log[j].file].chunks[run.log[j].chunk].rows)
                 + RowsCommitted(js \ {j})

\* rows the file at position i of the list added to staging in the run
RowsAdded(i) == RowsCommitted({j \in Copies : run.log[j].file = i})

\* the file at position i is the only one of the list with its name
UniqueName(i) ==
    \A k \in DOMAIN run.file_list :
        run.file_list[k].name = run.file_list[i].name => k = i

\* C25: the row count the report gives for a file is the number of rows the
\* file added to staging; a file reported with status error and 0 rows has
\* left no rows in staging.
C25_ReportedRowsAreStagedRows ==
    run.loader # "none" =>
        \A i \in DOMAIN run.file_list :
            UniqueName(i) => run.results[run.file_list[i].name].lines = RowsAdded(i)

\* entries of the report with a status
Successes == {n \in DOMAIN run.results : run.results[n].status = "success"}
Failures == {n \in DOMAIN run.results : run.results[n].status = "error"}

\* C26: the report holds one entry per file of the list: successes plus
\* errors is the number of files processed, also when two files of
\* different sub-directories have one name.
C26_OneEntryPerFile ==
    run.loader # "none" =>
        /\ Cardinality(DOMAIN run.results) = Len(run.file_list)
        /\ Cardinality(Successes) + Cardinality(Failures) = Len(run.file_list)

\* ------------------------------------------------------------------------
\* Claims about truncation in a numbering import (ImportSpec)
\* ------------------------------------------------------------------------

\* the rows a numbering run r committed to table t, from log position j on
RECURSIVE CommittedFrom(_, _, _)
CommittedFrom(r, t, j) ==
    IF j > Len(r.log) THEN EmptyBag
    ELSE IF r.log[j].ev = "copy" /\ r.log[j].table = t
    THEN LET file == r.file_list[r.log[j].file]
             rows == file.chunks[r.log[j].chunk].rows
         IN  SeqToBag([i \in 1..Len(rows) |->
                          StampNsapn(rows[i], DetectFileType(file.name), file.name)])
                 (+) CommittedFrom(r, t, j + 1)
    ELSE CommittedFrom(r, t, j + 1)

\* the first file of the run r has a known type and yields a first chunk
FirstFileYields(r) ==
    /\ DetectFileType(r.file_list[1].name) # None
    /\ r.file_list[1].chunks # <<>>
    /\ r.file_list[1].chunks[1].fault # "parse"

Consolidations == {i \in DOMAIN run.log : run.log[i].ev = "consolidate"}

RowsOf(n) == {results[i] : i \in {i \in 1..Len(results) :
                                     results[i].nu_terminal = ToBigint(n)}}

\* C30 as stated: a queried number whose length is neither 10 nor 11 has
\* ind_portado = 0, whatever history table consolidation produced.
C30_OtherLengthNeverPorted ==
    QueryReturned =>
        \A n \in Range(last.numbers) :
            (Len(n) # 10 /\ Len(n) # 11) =>
                \A row \in RowsOf(n) : row.ind_portado = 0

\* C30, amended: a queried number that consists of digits only and whose
\* length is neither 10 nor 11 has ind_portado = 0, whatever history table
\* consolidation produced.
C30_OtherLengthDigitsNeverPorted ==
    QueryReturned =>
        \A n \in Range(last.numbers) :
            (Len(n) # 10 /\ Len(n) # 11 /\ \A i \in DOMAIN n : n[i] \in 0..9) =>
                \A row \in RowsOf(n) : row.ind_portado = 0

\* a 7-digit number was resolved while the consolidated history holds a
\* record of that number dated on or before the reference date
C30_Witness ==
    /\ QueryReturned
    /\ \E n \in Range(last.numbers) :
           /\ Len(n) = 7
           /\ RowsOf(n) # {}
           /\ \E h \in tb_portabilidade_historico :
                  /\ h.tn_inicial = ToBigint(n)
                  /\ h.data_agendamento <= last.ref
====
